---- MODULE Spec2Model ----
(***************************************************************************)
(* Data-acquisition and caching layer of macro-dashboard:                  *)
(*   services/market_data.py  get_indicators, get_stock_quote              *)
(*   services/fred_data.py    get_liquidity_data                           *)
(* Each provider call is a sequence of steps of one thread; a step is one  *)
(* read or write of a module global, one upstream request, or the local    *)
(* computation between them.                                               *)
(*                                                                         *)
(* Conventions.  A Python Optional is a sequence of length 0 or 1          *)
(* (None == <<>>, a value v is <<v>>).  A Python str that the code         *)
(* inspects is a sequence of one-character strings.  A dict is a function  *)
(* whose DOMAIN is the set of keys present.  Floats whose values are       *)
(* integral are integers; a quotient is the pair of its numerator and      *)
(* denominator until it is formatted.                                      *)
(***************************************************************************)
EXTENDS Integers, Sequences, FiniteSets, TLC

VARIABLES
    _CACHE,            \* market_data._CACHE           (None or <<entry>>)
    _STOCK_CACHE,      \* market_data._STOCK_CACHE     (None or <<entry>>)
    _LIQUIDITY_CACHE,  \* fred_data._LIQUIDITY_CACHE   (None or <<entry>>)
    FRED_API_KEY,      \* fred_data.FRED_API_KEY, read from the environment at import
    now,               \* the wall clock, datetime.now(...).timestamp()
    upstream,          \* the answers the external providers may give to a request
    frames,            \* per thread: the running provider call and its locals
    State              \* macro_wide.State: what the pages of the dashboard show

vars == <<_CACHE, _STOCK_CACHE, _LIQUIDITY_CACHE, FRED_API_KEY, now, upstream, frames, State>>

caches == <<_CACHE, _STOCK_CACHE, _LIQUIDITY_CACHE>>

-----------------------------------------------------------------------------
(* Bounds of the model *)

MaxTime == 3        \* the clock runs from 0 to MaxTime ticks
MaxTTL == 2         \* ttl_seconds arguments are drawn from 0..MaxTTL ticks
TicksPerMinute == 2 \* clock ticks in one minute of the "%H:%M" timestamp
NThreads == 2       \* threads that may call the providers

Threads == 1..NThreads
TTLs == 0..MaxTTL

-----------------------------------------------------------------------------
(* Python values *)

None == <<>>
Some(v) == <<v>>
NaN == <<>>

\* bool(x) of an Optional number: None, 0 and 0.0 are falsy
Truthy(x) == x # None /\ x[1] # 0

\* a or b
Or(a, b) == IF Truthy(a) THEN a ELSE b

\* d.get(k)
Get(d, k) == IF k \in DOMAIN d THEN d[k] ELSE None

\* the literal "—" (U+2014) used as the placeholder marker
Placeholder == <<"EM DASH">>

Abs(x) == IF x < 0 THEN -x ELSE x

RECURSIVE Pow10(_)
Pow10(k) == IF k = 0 THEN 1 ELSE 10 * Pow10(k - 1)

\* n / d (d > 0, n >= 0) rounded to the nearest integer, ties to even:
\* what the float formatting of an exactly representable quotient does
RoundHalfEven(n, d) ==
    LET q == n \div d
        r == n % d
    IN  IF 2 * r < d THEN q
        ELSE IF 2 * r > d THEN q + 1
        ELSE IF q % 2 = 0 THEN q ELSE q + 1

DigitChar == <<"0", "1", "2", "3", "4", "5", "6", "7", "8", "9">>

RECURSIVE Digits(_)
\* the decimal digits of n >= 0
Digits(n) == IF n < 10 THEN <<DigitChar[n + 1]>>
             ELSE Digits(n \div 10) \o <<DigitChar[(n % 10) + 1]>>

RECURSIVE ZeroPad(_, _)
ZeroPad(s, width) == IF Len(s) >= width THEN s ELSE ZeroPad(<<"0">> \o s, width)

RECURSIVE Grouped(_)
\* the "," option of the format mini-language: groups of three from the right
Grouped(s) == IF Len(s) <= 3 THEN s
              ELSE Grouped(SubSeq(s, 1, Len(s) - 3)) \o <<",">> \o SubSeq(s, Len(s) - 2, Len(s))

RECURSIVE GCD(_, _)
GCD(a, b) == IF b = 0 THEN a ELSE GCD(b, a % b)

\* f"{n/d:.{decimals}f}", or f"{n/d:,.{decimals}f}" when grouped; d > 0.
\* A negative value keeps its sign even when it rounds to zero ("-0.00").
\* The quotient is reduced first, which keeps the products small.
FormatFixed(n, d, decimals, grouped) ==
    LET g == GCD(Abs(n), d)
        scaled == RoundHalfEven((Abs(n) \div g) * Pow10(decimals), d \div g)
        ip == Digits(scaled \div Pow10(decimals))
        fp == ZeroPad(Digits(scaled % Pow10(decimals)), decimals)
    IN  (IF n < 0 THEN <<"-">> ELSE <<>>)
        \o (IF grouped THEN Grouped(ip) ELSE ip)
        \o (IF decimals > 0 THEN <<".">> \o fp ELSE <<>>)

UpperOf ==
    ("a" :> "A") @@ ("b" :> "B") @@ ("c" :> "C") @@ ("d" :> "D") @@ ("e" :> "E") @@
    ("f" :> "F") @@ ("g" :> "G") @@ ("h" :> "H") @@ ("i" :> "I") @@ ("j" :> "J") @@
    ("k" :> "K") @@ ("l" :> "L") @@ ("m" :> "M") @@ ("n" :> "N") @@ ("o" :> "O") @@
    ("p" :> "P") @@ ("q" :> "Q") @@ ("r" :> "R") @@ ("s" :> "S") @@ ("t" :> "T") @@
    ("u" :> "U") @@ ("v" :> "V") @@ ("w" :> "W") @@ ("x" :> "X") @@ ("y" :> "Y") @@
    ("z" :> "Z")

Whitespace == {" ", "\t", "\n"}

\* str.upper()
Upper(s) == [i \in 1..Len(s) |-> IF s[i] \in DOMAIN UpperOf THEN UpperOf[s[i]] ELSE s[i]]

RECURSIVE LStrip(_)
LStrip(s) == IF s # <<>> /\ Head(s) \in Whitespace THEN LStrip(Tail(s)) ELSE s

RECURSIVE RStrip(_)
RStrip(s) == IF s # <<>> /\ s[Len(s)] \in Whitespace THEN RStrip(SubSeq(s, 1, Len(s) - 1)) ELSE s

\* str.strip()
Strip(s) == RStrip(LStrip(s))

\* now.strftime("%Y-%m-%d %H:%M KST"): the timestamp to the minute
Strftime(t) == Digits(t \div TicksPerMinute) \o <<" ", "K", "S", "T">>

-----------------------------------------------------------------------------
(* services/market_data.py: formatting *)

\* a quotient n/d brought to a positive denominator
Rat(n, d) == IF d < 0 THEN <<-n, -d>> ELSE <<n, d>>

_fmt_number(x, decimals) == FormatFixed(x[1], x[2], decimals, TRUE)

_fmt_pct(x, decimals) ==
    LET sign == IF x[1] >= 0 THEN <<"+">> ELSE <<>>
    IN  sign \o FormatFixed(x[1], x[2], decimals, FALSE) \o <<"%">>

USD == <<"U", "S", "D">>

\* "$" if (currency or "").upper() == "USD" else ""
MoneyPrefix(currency) ==
    IF Upper(IF currency # None /\ currency[1] # <<>> THEN currency[1] ELSE <<>>) = USD
    THEN <<"$">> ELSE <<>>

\* the thresholds 10^12, 10^9, 10^6, 10^3 on an integral value
_fmt_compact_money(value, currency) ==
    LET prefix == MoneyPrefix(currency)
        abs_v == Abs(value)
    IN  IF abs_v \div 1000000 >= 1000000
        THEN prefix \o FormatFixed(value \div 10000000, 100000, 2, FALSE) \o <<"T">>
        ELSE IF abs_v >= 1000000000
        THEN prefix \o FormatFixed(value, 1000000000, 2, FALSE) \o <<"B">>
        ELSE IF abs_v >= 1000000
        THEN prefix \o FormatFixed(value, 1000000, 2, FALSE) \o <<"M">>
        ELSE IF abs_v >= 1000
        THEN prefix \o FormatFixed(value, 1000, 2, FALSE) \o <<"K">>
        ELSE prefix \o _fmt_number(<<value, 1>>, 0)

\* a variant of the percent change that leaves out the factor 100
PercentChange_Ratio(last, prev) == IF prev # 0 THEN Rat(last - prev, prev) ELSE <<0, 1>>

\* ((last - prev) / prev) * 100.0 if prev else 0.0
PercentChange(last, prev) == IF prev # 0 THEN Rat((last - prev) * 100, prev) ELSE <<0, 1>>

-----------------------------------------------------------------------------
(* services/market_data.py: the indicator basket *)

\* y_symbols and the decimals/prefix of each _mk_from_quote call, in list order
Basket == <<
    [name |-> "KOSPI",    sym |-> "^KS11",   decimals |-> 2, prefix |-> <<>>],
    [name |-> "KOSDAQ",   sym |-> "^KQ11",   decimals |-> 2, prefix |-> <<>>],
    [name |-> "S&P 500",  sym |-> "^GSPC",   decimals |-> 2, prefix |-> <<>>],
    [name |-> "NASDAQ",   sym |-> "^IXIC",   decimals |-> 2, prefix |-> <<>>],
    [name |-> "USD/KRW",  sym |-> "KRW=X",   decimals |-> 2, prefix |-> <<>>],
    [name |-> "Bitcoin",  sym |-> "BTC-USD", decimals |-> 2, prefix |-> <<"$">>],
    [name |-> "Ethereum", sym |-> "ETH-USD", decimals |-> 2, prefix |-> <<"$">>],
    [name |-> "XRP",      sym |-> "XRP-USD", decimals |-> 4, prefix |-> <<"$">>] >>

BasketSymbols == [i \in 1..Len(Basket) |-> Basket[i].sym]

SymbolSet == {BasketSymbols[i] : i \in 1..Len(BasketSymbols)}

\* series.dropna()
dropna(series) == SelectSeq(series, LAMBDA v : v # NaN)

\* {"last": series.iloc[-1], "prev": series.iloc[-2]}
LastPrev(series) == [last |-> series[Len(series)][1], prev |-> series[Len(series) - 1][1]]

\* a variant of the batch fetch that needs three observations
_fetch_yfinance_quotes_Three(symbols, df) ==
    IF symbols = <<>> THEN <<>>
    ELSE IF df.multi
    THEN LET kept == {s \in {symbols[i] : i \in 1..Len(symbols)} : Len(dropna(df.Close[s])) >= 3}
         IN  [s \in kept |-> Some(LastPrev(dropna(df.Close[s])))]
    ELSE LET close == dropna(df.Close)
         IN  IF Len(close) >= 3 THEN (symbols[1] :> Some(LastPrev(close))) ELSE <<>>

\* df is the frame yf.download returned: df.multi says whether its columns are a
\* MultiIndex, df.Close is then a dict symbol -> series, otherwise one series.
_fetch_yfinance_quotes(symbols, df) ==
    IF symbols = <<>> THEN <<>>
    ELSE IF df.multi
    THEN LET kept == {s \in {symbols[i] : i \in 1..Len(symbols)} : Len(dropna(df.Close[s])) >= 2}
         IN  [s \in kept |-> Some(LastPrev(dropna(df.Close[s])))]
    ELSE LET close == dropna(df.Close)
         IN  IF Len(close) >= 2 THEN (symbols[1] :> Some(LastPrev(close))) ELSE <<>>

_mk_from_quote(quotes, name, sym, decimals, prefix) ==
    LET q == Get(quotes, sym)
    IN  IF q = None
        THEN [name |-> name, value |-> Placeholder, change |-> Placeholder,
              is_positive |-> TRUE, source |-> "yfinance"]
        ELSE LET last == q[1].last
                 prev == q[1].prev
                 pct == PercentChange(last, prev)
             IN  [name |-> name,
                  value |-> prefix \o _fmt_number(<<last, 1>>, decimals),
                  change |-> _fmt_pct(pct, 2),
                  is_positive |-> pct[1] >= 0,
                  source |-> "yfinance"]

\* the policy-rate entry; effr is (rate in hundredths of a percent, effective date)
EffrIndicator(effr) ==
    [name |-> "EFFR", value |-> FormatFixed(effr.rate, 100, 2, FALSE) \o <<"%">>,
     change |-> effr.date, is_positive |-> TRUE, source |-> "nyfed"]

\* the indicators list of get_indicators
MakeIndicators(quotes, effr) ==
    [i \in 1..Len(Basket) |->
        _mk_from_quote(quotes, Basket[i].name, Basket[i].sym, Basket[i].decimals, Basket[i].prefix)]
    \o <<EffrIndicator(effr)>>

-----------------------------------------------------------------------------
(* services/market_data.py: the single stock quote *)

LastAliases == <<"last_price", "lastPrice", "regularMarketPrice", "currentPrice">>
PrevAliases == <<"previous_close", "previousClose", "regularMarketPreviousClose">>
VolumeAliases == <<"last_volume", "lastVolume", "regularMarketVolume", "volume">>
MarketCapAliases == <<"market_cap", "marketCap">>

RECURSIVE Probe(_, _)
\* payload.get(k1) or payload.get(k2) or ... or payload.get(kn)
Probe(payload, keys) ==
    IF Len(keys) = 1 THEN Get(payload, keys[1])
    ELSE Or(Get(payload, keys[1]), Probe(payload, Tail(keys)))

\* a variant of the degenerate quote that shows a price of zero
PlaceholderQuote_ZeroPrice(source) ==
    [price |-> <<"0", ".", "0", "0">>, change |-> Placeholder, change_value |-> Placeholder,
     change_pct |-> <<>>, is_positive |-> TRUE, volume |-> Placeholder,
     market_cap |-> Placeholder, source |-> source]

\* the quote returned when last or prev is None
PlaceholderQuote(source) ==
    [price |-> Placeholder, change |-> Placeholder, change_value |-> Placeholder,
     change_pct |-> <<>>, is_positive |-> TRUE, volume |-> Placeholder,
     market_cap |-> Placeholder, source |-> source]

\* the normalisation of get_stock_quote, from the payload to the quote
MakeStockQuote(payload, source) ==
    LET currency == Get(payload, "currency")
        last == Probe(payload, LastAliases)
        prev == Probe(payload, PrevAliases)
        volume == Probe(payload, VolumeAliases)
        market_cap == Probe(payload, MarketCapAliases)
    IN  IF last = None \/ prev = None
        THEN PlaceholderQuote(source)
        ELSE LET last_f == last[1]
                 prev_f == IF Truthy(prev) THEN prev[1] ELSE 0
                 chg == last_f - prev_f
                 pct == PercentChange(last_f, prev_f)
                 price_str == MoneyPrefix(currency) \o _fmt_number(<<last_f, 1>>, 2)
                 change_value == IF chg >= 0 THEN <<"+">> \o _fmt_number(<<chg, 1>>, 2)
                                 ELSE _fmt_number(<<chg, 1>>, 2)
                 change_pct == <<"(">> \o _fmt_pct(pct, 2) \o <<")">>
             IN  [price |-> price_str,
                  change |-> change_value \o <<" ">> \o change_pct,
                  change_value |-> change_value,
                  change_pct |-> change_pct,
                  is_positive |-> pct[1] >= 0,
                  volume |-> IF volume = None THEN Placeholder
                             ELSE FormatFixed(volume[1], 1, 0, TRUE),
                  market_cap |-> IF market_cap = None THEN Placeholder
                                 ELSE _fmt_compact_money(market_cap[1], currency),
                  source |-> source]

\* what yf.Ticker(symbol) holds for a symbol the upstream has no data for
UnknownTicker == [fast_info |-> [raises |-> FALSE, data |-> <<>>],
                  info |-> [raises |-> FALSE, data |-> <<>>]]

\* the states yf.Ticker(symbol) may be found in
TickerOf(up, symbol) ==
    IF symbol \in DOMAIN up.ticker THEN up.ticker[symbol] ELSE {UnknownTicker}

\* a variant of the fetch that prefers info and falls back to fast_info
_fetch_yfinance_stock_quote_RichFirst(t) ==
    IF ~t.info.raises /\ t.info.data # <<>>
    THEN [payload |-> t.info.data, source |-> "yfinance.info", read |-> <<"info">>]
    ELSE IF ~t.fast_info.raises /\ t.fast_info.data # <<>>
    THEN [payload |-> t.fast_info.data, source |-> "yfinance.fast_info",
          read |-> <<"info", "fast_info">>]
    ELSE [payload |-> <<>>, source |-> "yfinance", read |-> <<"info", "fast_info">>]

\* fast_info when it is readable and non-empty, else info when it is readable
\* and non-empty, else the empty payload: (payload, source, sources read)
_fetch_yfinance_stock_quote(t) ==
    IF ~t.fast_info.raises /\ t.fast_info.data # <<>>
    THEN [payload |-> t.fast_info.data, source |-> "yfinance.fast_info",
          read |-> <<"fast_info">>]
    ELSE IF ~t.info.raises /\ t.info.data # <<>>
    THEN [payload |-> t.info.data, source |-> "yfinance.info",
          read |-> <<"fast_info", "info">>]
    ELSE [payload |-> <<>>, source |-> "yfinance", read |-> <<"fast_info", "info">>]

-----------------------------------------------------------------------------
(* The cache test shared by the three providers *)

\* variants of the test: the comparison turned round, and "<=" for "<"
IsFresh_Inverted(now_epoch, fetched_at_epoch, ttl_seconds) ==
    (now_epoch - fetched_at_epoch) > ttl_seconds

IsFresh_Inclusive(now_epoch, fetched_at_epoch, ttl_seconds) ==
    (now_epoch - fetched_at_epoch) <= ttl_seconds

\* (now_epoch - cache.fetched_at_epoch) < ttl_seconds
IsFresh(now_epoch, fetched_at_epoch, ttl_seconds) ==
    (now_epoch - fetched_at_epoch) < ttl_seconds

-----------------------------------------------------------------------------
(* Frames: one provider call per thread *)

NoFrame ==
    [pc |-> "idle", fn |-> "", ttl_seconds |-> 0, symbol |-> <<>>, api_key |-> None,
     now_epoch |-> 0, symbol_u |-> <<>>, r |-> <<>>, quotes |-> <<>>, effr |-> None,
     payload |-> <<>>, source |-> "", key |-> "", series |-> <<>>, reqs |-> <<>>,
     ret |-> None, exc |-> None, pre |-> <<None, None, None>>, checked |-> None,
     failed |-> None]

\* Of a frame, pre, checked and failed are not locals of the code: pre is the
\* three cache slots as the call found them when it started, checked is the
\* cache entry whose age the call compared with ttl_seconds, and failed is the
\* pre of the thread's last call that raised, kept until a call of the thread
\* fetches with success.

\* a thread can start a call when it is not inside one
CanCall(t) == frames[t].pc = "idle"

\* the call of thread t has returned or raised and its caller has not resumed
HasEnded(t) == frames[t].pc \in {"done", "raised"}

\* the frame of a call that has just read the clock
Enter(t, fn, ttl) ==
    [NoFrame EXCEPT !.fn = fn, !.ttl_seconds = ttl, !.now_epoch = now, !.pre = caches,
                    !.failed = frames[t].failed]

Goto(t, label) == frames' = [frames EXCEPT ![t].pc = label]

\* the frame of a call that has ended: its arguments, the clock it read, what
\* it requested and received and the caches it started from stay for inspection
Ended(f) ==
    [NoFrame EXCEPT !.fn = f.fn, !.ttl_seconds = f.ttl_seconds, !.symbol = f.symbol,
                    !.api_key = f.api_key, !.now_epoch = f.now_epoch,
                    !.symbol_u = f.symbol_u, !.reqs = f.reqs, !.pre = f.pre,
                    !.payload = f.payload, !.source = f.source, !.checked = f.checked,
                    !.failed = f.failed]

\* the call returns a value
Return(t, value) ==
    frames' = [frames EXCEPT ![t] = [Ended(frames[t]) EXCEPT !.pc = "done", !.ret = Some(value)]]

\* an exception: its class and what it says
Exc(type, msg) == [type |-> type, msg |-> msg]

\* what httpx, yfinance or the parsing of a malformed response raise
UpstreamError == Exc("Exception", "upstream")

\* the call ends with an exception
Raise(t, e) ==
    frames' = [frames EXCEPT ![t] = [Ended(frames[t]) EXCEPT !.pc = "raised", !.exc = Some(e)]]

\* the call ends with an exception raised by the request it has just issued
RaiseAfter(t, what, e) ==
    frames' = [frames EXCEPT ![t] =
        [Ended(frames[t]) EXCEPT !.pc = "raised", !.exc = Some(e),
                                 !.reqs = Append(frames[t].reqs, what)]]


\* everything but the frames and the caches
world == <<FRED_API_KEY, now, upstream, State>>

\* the upstream request a call issues is appended to its log
Requested(t, what) == Append(frames[t].reqs, what)

-----------------------------------------------------------------------------
(* market_data.get_indicators *)

get_indicators(t, ttl) ==
    /\ CanCall(t)
    /\ frames' = [frames EXCEPT ![t] = [Enter(t, "get_indicators", ttl) EXCEPT !.pc = "ind_check_none"]]
    /\ UNCHANGED <<caches, world>>

\* _CACHE is not None
IndCheckNone(t) ==
    /\ frames[t].pc = "ind_check_none"
    /\ Goto(t, IF _CACHE # None THEN "ind_check_age" ELSE "ind_quotes")
    /\ UNCHANGED <<caches, world>>

\* (now_epoch - _CACHE.fetched_at_epoch) < ttl_seconds
IndCheckAge(t) ==
    /\ frames[t].pc = "ind_check_age"
    /\ frames' = [frames EXCEPT
            ![t].checked = _CACHE,
            ![t].pc = IF IsFresh(frames[t].now_epoch, _CACHE[1].fetched_at_epoch,
                                 frames[t].ttl_seconds)
                      THEN "ind_read_indicators" ELSE "ind_quotes"]
    /\ UNCHANGED <<caches, world>>

\* return _CACHE.indicators, ...
IndReadIndicators(t) ==
    /\ frames[t].pc = "ind_read_indicators"
    /\ frames' = [frames EXCEPT ![t].r = <<_CACHE[1].indicators>>,
                                ![t].pc = "ind_read_last_updated"]
    /\ UNCHANGED <<caches, world>>

\* a variant of the hit that renews the age of the entry it serves
IndReadLastUpdated_Renews(t) ==
    /\ frames[t].pc = "ind_read_last_updated"
    /\ Return(t, [indicators |-> frames[t].r[1],
                   last_updated |-> _CACHE[1].last_updated,
                   is_cached |-> TRUE])
    /\ _CACHE' = Some([_CACHE[1] EXCEPT !.fetched_at_epoch = frames[t].now_epoch])
    /\ UNCHANGED <<_STOCK_CACHE, _LIQUIDITY_CACHE, world>>

\* ... _CACHE.last_updated, True
IndReadLastUpdated(t) ==
    /\ frames[t].pc = "ind_read_last_updated"
    /\ Return(t, [indicators |-> frames[t].r[1],
                   last_updated |-> _CACHE[1].last_updated,
                   is_cached |-> TRUE])
    /\ UNCHANGED <<caches, world>>

\* quotes = _fetch_yfinance_quotes(list(y_symbols.values()))
IndFetchQuotes(t, ok) ==
    /\ frames[t].pc = "ind_quotes"
    /\ IF ok
       THEN \E df \in upstream.download :
                frames' = [frames EXCEPT
                    ![t].reqs = Requested(t, "yf.download"),
                    ![t].quotes = _fetch_yfinance_quotes(BasketSymbols, df),
                    ![t].pc = "ind_effr"]
       ELSE RaiseAfter(t, "yf.download", UpstreamError)
    /\ UNCHANGED <<caches, world>>

\* a variant of the refresh that drops the entry when the rate fetch fails
IndFetchEffr_Invalidates(t, ok) ==
    /\ frames[t].pc = "ind_effr"
    /\ IF ok
       THEN /\ \E effr \in upstream.effr :
                   frames' = [frames EXCEPT
                       ![t].reqs = Requested(t, "nyfed.effr"),
                       ![t].effr = Some(effr),
                       ![t].pc = "ind_store"]
            /\ UNCHANGED _CACHE
       ELSE /\ RaiseAfter(t, "nyfed.effr", UpstreamError)
            /\ _CACHE' = None
    /\ UNCHANGED <<_STOCK_CACHE, _LIQUIDITY_CACHE, world>>

\* effr_rate, effr_date = _fetch_effr()
IndFetchEffr(t, ok) ==
    /\ frames[t].pc = "ind_effr"
    /\ IF ok
       THEN \E effr \in upstream.effr :
                frames' = [frames EXCEPT
                    ![t].reqs = Requested(t, "nyfed.effr"),
                    ![t].effr = Some(effr),
                    ![t].pc = "ind_store"]
       ELSE RaiseAfter(t, "nyfed.effr", UpstreamError)
    /\ UNCHANGED <<caches, world>>

\* the list is built, _CACHE is replaced and the fresh result returned
IndStore(t) ==
    /\ frames[t].pc = "ind_store"
    /\ LET indicators == MakeIndicators(frames[t].quotes, frames[t].effr[1])
           last_updated == Strftime(frames[t].now_epoch)
       IN  /\ _CACHE' = Some([fetched_at_epoch |-> frames[t].now_epoch,
                              indicators |-> indicators,
                              last_updated |-> last_updated])
           /\ Return(t, [indicators |-> indicators,
                          last_updated |-> last_updated,
                          is_cached |-> FALSE])
    /\ UNCHANGED <<_STOCK_CACHE, _LIQUIDITY_CACHE, world>>

-----------------------------------------------------------------------------
(* market_data.get_stock_quote *)

\* a variant of the normalisation that trims and keeps the case
NormalizeSymbol_TrimOnly(symbol) == Strip(symbol)

\* symbol_u = symbol.strip().upper()
NormalizeSymbol(symbol) == Upper(Strip(symbol))

get_stock_quote(t, symbol, ttl) ==
    /\ CanCall(t)
    /\ frames' = [frames EXCEPT ![t] =
            [Enter(t, "get_stock_quote", ttl) EXCEPT
                !.symbol = symbol,
                !.symbol_u = NormalizeSymbol(symbol),
                !.pc = "stk_check_none"]]
    /\ UNCHANGED <<caches, world>>

\* _STOCK_CACHE is not None
StkCheckNone(t) ==
    /\ frames[t].pc = "stk_check_none"
    /\ Goto(t, IF _STOCK_CACHE # None THEN "stk_check_symbol" ELSE "stk_fetch")
    /\ UNCHANGED <<caches, world>>

\* a variant of the lookup that does not compare the symbols
StkCheckSymbol_AnySymbol(t) ==
    /\ frames[t].pc = "stk_check_symbol"
    /\ Goto(t, "stk_check_age")
    /\ UNCHANGED <<caches, world>>

\* _STOCK_CACHE.symbol == symbol_u
StkCheckSymbol(t) ==
    /\ frames[t].pc = "stk_check_symbol"
    /\ Goto(t, IF _STOCK_CACHE[1].symbol = frames[t].symbol_u
               THEN "stk_check_age" ELSE "stk_fetch")
    /\ UNCHANGED <<caches, world>>

\* (now_epoch - _STOCK_CACHE.fetched_at_epoch) < ttl_seconds
StkCheckAge(t) ==
    /\ frames[t].pc = "stk_check_age"
    /\ frames' = [frames EXCEPT
            ![t].checked = _STOCK_CACHE,
            ![t].pc = IF IsFresh(frames[t].now_epoch, _STOCK_CACHE[1].fetched_at_epoch,
                                 frames[t].ttl_seconds)
                      THEN "stk_read_quote" ELSE "stk_fetch"]
    /\ UNCHANGED <<caches, world>>

\* return _STOCK_CACHE.quote, ...
StkReadQuote(t) ==
    /\ frames[t].pc = "stk_read_quote"
    /\ frames' = [frames EXCEPT ![t].r = <<_STOCK_CACHE[1].quote>>,
                                ![t].pc = "stk_read_last_updated"]
    /\ UNCHANGED <<caches, world>>

\* ... _STOCK_CACHE.last_updated, True
StkReadLastUpdated(t) ==
    /\ frames[t].pc = "stk_read_last_updated"
    /\ Return(t, [quote |-> frames[t].r[1],
                   last_updated |-> _STOCK_CACHE[1].last_updated,
                   is_cached |-> TRUE])
    /\ UNCHANGED <<caches, world>>

\* payload, source = _fetch_yfinance_stock_quote(symbol_u)
StkFetch(t) ==
    /\ frames[t].pc = "stk_fetch"
    /\ \E ticker \in TickerOf(upstream, frames[t].symbol_u) :
           LET got == _fetch_yfinance_stock_quote(ticker)
           IN  frames' = [frames EXCEPT
                   ![t].reqs = frames[t].reqs \o got.read,
                   ![t].payload = got.payload,
                   ![t].source = got.source,
                   ![t].pc = "stk_store"]
    /\ UNCHANGED <<caches, world>>

\* a variant of the store that does not cache the quote without a price
StkStore_SkipsPlaceholder(t) ==
    /\ frames[t].pc = "stk_store"
    /\ LET quote == MakeStockQuote(frames[t].payload, frames[t].source)
           last_updated == Strftime(frames[t].now_epoch)
       IN  /\ IF quote.price = Placeholder
              THEN UNCHANGED _STOCK_CACHE
              ELSE _STOCK_CACHE' = Some([fetched_at_epoch |-> frames[t].now_epoch,
                                         symbol |-> frames[t].symbol_u,
                                         quote |-> quote,
                                         last_updated |-> last_updated])
           /\ Return(t, [quote |-> quote,
                          last_updated |-> last_updated,
                          is_cached |-> FALSE])
    /\ UNCHANGED <<_CACHE, _LIQUIDITY_CACHE, world>>

\* a variant of the store that drops the indicators with the old quote
StkStore_DropsIndicators(t) ==
    /\ frames[t].pc = "stk_store"
    /\ LET quote == MakeStockQuote(frames[t].payload, frames[t].source)
           last_updated == Strftime(frames[t].now_epoch)
       IN  /\ _STOCK_CACHE' = Some([fetched_at_epoch |-> frames[t].now_epoch,
                                    symbol |-> frames[t].symbol_u,
                                    quote |-> quote,
                                    last_updated |-> last_updated])
           /\ Return(t, [quote |-> quote,
                          last_updated |-> last_updated,
                          is_cached |-> FALSE])
    /\ _CACHE' = None
    /\ UNCHANGED <<_LIQUIDITY_CACHE, world>>

\* the quote is built, _STOCK_CACHE is replaced and the fresh result returned
StkStore(t) ==
    /\ frames[t].pc = "stk_store"
    /\ LET quote == MakeStockQuote(frames[t].payload, frames[t].source)
           last_updated == Strftime(frames[t].now_epoch)
       IN  /\ _STOCK_CACHE' = Some([fetched_at_epoch |-> frames[t].now_epoch,
                                    symbol |-> frames[t].symbol_u,
                                    quote |-> quote,
                                    last_updated |-> last_updated])
           /\ Return(t, [quote |-> quote,
                          last_updated |-> last_updated,
                          is_cached |-> FALSE])
    /\ UNCHANGED <<_CACHE, _LIQUIDITY_CACHE, world>>

-----------------------------------------------------------------------------
(* services/fred_data.py: series, merge and snapshot *)

SeriesIds == <<"WALCL", "WDTGAL", "RRPONTSYD", "SP500">>

\* An observation is [date, value]; value is the value string, by its text:
\* "num" a number (num), "." the missing-value marker, "" an absent or empty
\* string, "nan" a spelling of NaN, "bad" anything float() rejects.
Obs(d, n) == [date |-> d, value |-> [text |-> "num", num |-> n]]
ObsText(d, text) == [date |-> d, value |-> [text |-> text, num |-> 0]]

\* a variant of the filter that lets the marker "." through, as a value of 0
KeptObservations_WithMarker(observations) ==
    SelectSeq(observations, LAMBDA obs : obs.value.text # "")

\* if value_str and value_str != "."
KeptObservations(observations) ==
    SelectSeq(observations, LAMBDA obs : obs.value.text \notin {"", "."})

\* float(value_str) raises ValueError
Unparsable(observations) ==
    \E i \in 1..Len(observations) :
        observations[i].value.text = "bad"

\* the rows of the DataFrame _fetch_fred_series returns
_fetch_fred_series(observations) ==
    LET kept == KeptObservations(observations)
    IN  [i \in 1..Len(kept) |->
            [date |-> kept[i].date,
             value |-> IF kept[i].value.text = "nan" THEN NaN ELSE Some(kept[i].value.num)]]

RECURSIVE SortedDates(_)
\* the dates of a set in ascending order
SortedDates(S) ==
    IF S = {} THEN <<>>
    ELSE LET m == CHOOSE x \in S : \A y \in S : x <= y
         IN  <<m>> \o SortedDates(S \ {m})

DatesOf(df) == {df[i].date : i \in 1..Len(df)}

\* the cell of a series' column at a date, before any fill
CellAt(df, d) ==
    IF d \in DatesOf(df)
    THEN (LET i == CHOOSE j \in 1..Len(df) : df[j].date = d IN df[i].value)
    ELSE NaN

\* a variant of the join that keeps the dates all four series have
Concat_Inner(walcl, wdtgal, rrpontsyd, sp500) ==
    LET dates == SortedDates(DatesOf(walcl) \cap DatesOf(wdtgal)
                             \cap DatesOf(rrpontsyd) \cap DatesOf(sp500))
    IN  [i \in 1..Len(dates) |->
            [date |-> dates[i],
             fed_assets |-> CellAt(walcl, dates[i]),
             tga_balance |-> CellAt(wdtgal, dates[i]),
             rrp_balance |-> CellAt(rrpontsyd, dates[i]),
             sp500 |-> CellAt(sp500, dates[i])]]

\* pd.concat([...], axis=1): one row per date of the union, ascending
Concat(walcl, wdtgal, rrpontsyd, sp500) ==
    LET dates == SortedDates(DatesOf(walcl) \cup DatesOf(wdtgal)
                             \cup DatesOf(rrpontsyd) \cup DatesOf(sp500))
    IN  [i \in 1..Len(dates) |->
            [date |-> dates[i],
             fed_assets |-> CellAt(walcl, dates[i]),
             tga_balance |-> CellAt(wdtgal, dates[i]),
             rrp_balance |-> CellAt(rrpontsyd, dates[i]),
             sp500 |-> CellAt(sp500, dates[i])]]

Columns == {"fed_assets", "tga_balance", "rrp_balance", "sp500"}

RECURSIVE FFillFrom(_, _)
\* merged.ffill(): a NaN cell takes the cell above it
FFillFrom(above, rows) ==
    IF rows = <<>> THEN <<>>
    ELSE LET row == Head(rows)
             filled == [c \in DOMAIN row |->
                           IF c \in Columns /\ row[c] = NaN THEN above[c] ELSE row[c]]
         IN  <<filled>> \o FFillFrom(filled, Tail(rows))

\* a variant of the fill that fills nothing
ffill_Nothing(rows) == rows

ffill(rows) ==
    FFillFrom([date |-> 0, fed_assets |-> NaN, tga_balance |-> NaN,
               rrp_balance |-> NaN, sp500 |-> NaN], rows)

\* merged.dropna(): rows with a value in every column
DropNaRows(rows) == SelectSeq(rows, LAMBDA row : \A c \in Columns : row[c] # NaN)

\* a variant of the row that subtracts the billions as if they were millions
WithNetLiquidity_Unscaled(row) ==
    [date |-> row.date,
     fed_assets |-> row.fed_assets[1],
     tga_balance |-> row.tga_balance[1],
     rrp_balance |-> row.rrp_balance[1],
     sp500 |-> row.sp500[1],
     rrp_balance_millions |-> row.rrp_balance[1],
     net_liquidity |-> row.fed_assets[1] - row.tga_balance[1] - row.rrp_balance[1]]

\* rrp_balance_millions and net_liquidity of one row
WithNetLiquidity(row) ==
    LET rrp_balance_millions == row.rrp_balance[1] * 1000
    IN  [date |-> row.date,
         fed_assets |-> row.fed_assets[1],
         tga_balance |-> row.tga_balance[1],
         rrp_balance |-> row.rrp_balance[1],
         sp500 |-> row.sp500[1],
         rrp_balance_millions |-> rrp_balance_millions,
         net_liquidity |-> row.fed_assets[1] - row.tga_balance[1] - rrp_balance_millions]

_merge_series(walcl, wdtgal, rrpontsyd, sp500) ==
    LET merged == DropNaRows(ffill(Concat(walcl, wdtgal, rrpontsyd, sp500)))
    IN  [i \in 1..Len(merged) |-> WithNetLiquidity(merged[i])]

\* a variant of the change that divides by prev, sign included
_calc_change_Signed(curr, prev) ==
    IF prev = 0 THEN <<0, 1>>
    ELSE LET g == GCD(Abs(curr - prev), Abs(prev))
         IN  Rat(((curr - prev) \div g) * 100, prev \div g)

\* ((curr - prev) / abs(prev)) * 100, and 0.0 when prev == 0; in lowest terms
_calc_change(curr, prev) ==
    IF prev = 0 THEN <<0, 1>>
    ELSE LET g == GCD(Abs(curr - prev), Abs(prev))
         IN  <<((curr - prev) \div g) * 100, Abs(prev) \div g>>

\* fred_data._fmt_compact: "$" and the T/B/M suffixes
_fmt_compact(value) ==
    LET abs_v == Abs(value)
    IN  IF abs_v \div 1000000 >= 1000000
        THEN <<"$">> \o FormatFixed(value \div 10000000, 100000, 2, FALSE) \o <<"T">>
        ELSE IF abs_v >= 1000000000
        THEN <<"$">> \o FormatFixed(value, 1000000000, 2, FALSE) \o <<"B">>
        ELSE IF abs_v >= 1000000
        THEN <<"$">> \o FormatFixed(value, 1000000, 2, FALSE) \o <<"M">>
        ELSE <<"$">> \o FormatFixed(value, 1, 0, TRUE)

\* a variant of the comparison row, one row further back
PrevWeek_SixBack(merged) == IF Len(merged) > 6 THEN merged[Len(merged) - 6] ELSE merged[1]

\* the row compared with the latest one
PrevWeek(merged) == IF Len(merged) > 5 THEN merged[Len(merged) - 5] ELSE merged[1]

\* one row in absolute currency units
Scaled(row) ==
    [date |-> row.date,
     fed_assets |-> row.fed_assets * 1000000,
     tga_balance |-> row.tga_balance * 1000000,
     rrp_balance |-> row.rrp_balance * 1000000000,
     net_liquidity |-> row.net_liquidity * 1000000,
     sp500 |-> row.sp500]

\* current_data of get_liquidity_data
MakeLiquidityData(merged) ==
    LET latest == Scaled(merged[Len(merged)])
        prev_week == Scaled(PrevWeek(merged))
    IN  [fed_assets |-> latest.fed_assets,
         fed_assets_str |-> _fmt_compact(latest.fed_assets),
         tga_balance |-> latest.tga_balance,
         tga_balance_str |-> _fmt_compact(latest.tga_balance),
         rrp_balance |-> latest.rrp_balance,
         rrp_balance_str |-> _fmt_compact(latest.rrp_balance),
         net_liquidity |-> latest.net_liquidity,
         net_liquidity_str |-> _fmt_compact(latest.net_liquidity),
         sp500 |-> latest.sp500,
         sp500_str |-> FormatFixed(latest.sp500, 1, 2, TRUE),
         fed_assets_change |-> _calc_change(latest.fed_assets, prev_week.fed_assets),
         tga_change |-> _calc_change(latest.tga_balance, prev_week.tga_balance),
         rrp_change |-> _calc_change(latest.rrp_balance, prev_week.rrp_balance),
         net_liquidity_change |-> _calc_change(latest.net_liquidity, prev_week.net_liquidity),
         sp500_change |-> _calc_change(latest.sp500, prev_week.sp500)]

\* a variant of the history that exposes the latest row only
MakeHistory_LatestOnly(merged) == <<Scaled(merged[Len(merged)])>>

\* history of get_liquidity_data: every merged row, scaled
MakeHistory(merged) == [i \in 1..Len(merged) |-> Scaled(merged[i])]

-----------------------------------------------------------------------------
(* fred_data.get_liquidity_data *)

MissingKeyError == Exc("ValueError", "FRED_API_KEY missing")
EmptyMergeError == Exc("ValueError", "cannot merge FRED data")
FloatError == Exc("ValueError", "could not convert string to float")
\* _fetch_fred_series: if not api_key: raise ValueError(...)
MissingKeyInFetch == Exc("ValueError", "FRED_API_KEY missing (fetch)")

get_liquidity_data(t, ttl, api_key) ==
    /\ CanCall(t)
    /\ frames' = [frames EXCEPT ![t] =
            [Enter(t, "get_liquidity_data", ttl) EXCEPT
                !.api_key = api_key,
                !.pc = "liq_check_none"]]
    /\ UNCHANGED <<caches, world>>

\* _LIQUIDITY_CACHE is not None
LiqCheckNone(t) ==
    /\ frames[t].pc = "liq_check_none"
    /\ Goto(t, IF _LIQUIDITY_CACHE # None THEN "liq_check_age" ELSE "liq_key")
    /\ UNCHANGED <<caches, world>>

\* (now_epoch - _LIQUIDITY_CACHE.fetched_at_epoch) < ttl_seconds
LiqCheckAge(t) ==
    /\ frames[t].pc = "liq_check_age"
    /\ frames' = [frames EXCEPT
            ![t].checked = _LIQUIDITY_CACHE,
            ![t].pc = IF IsFresh(frames[t].now_epoch, _LIQUIDITY_CACHE[1].fetched_at_epoch,
                                 frames[t].ttl_seconds)
                      THEN "liq_read_data" ELSE "liq_key"]
    /\ UNCHANGED <<caches, world>>

\* return (_LIQUIDITY_CACHE.data, ...
LiqReadData(t) ==
    /\ frames[t].pc = "liq_read_data"
    /\ frames' = [frames EXCEPT ![t].r = <<_LIQUIDITY_CACHE[1].data>>,
                                ![t].pc = "liq_read_history"]
    /\ UNCHANGED <<caches, world>>

\* ... _LIQUIDITY_CACHE.history, ...
LiqReadHistory(t) ==
    /\ frames[t].pc = "liq_read_history"
    /\ frames' = [frames EXCEPT ![t].r = Append(frames[t].r, _LIQUIDITY_CACHE[1].history),
                                ![t].pc = "liq_read_last_updated"]
    /\ UNCHANGED <<caches, world>>

\* ... _LIQUIDITY_CACHE.last_updated, True)
LiqReadLastUpdated(t) ==
    /\ frames[t].pc = "liq_read_last_updated"
    /\ Return(t, [data |-> frames[t].r[1],
                   history |-> frames[t].r[2],
                   last_updated |-> _LIQUIDITY_CACHE[1].last_updated,
                   is_cached |-> TRUE])
    /\ UNCHANGED <<caches, world>>

\* a variant of the resolution that falls back on a built-in key
ResolveKey_Default(api_key, env_key) ==
    IF api_key # None /\ api_key[1] # "" THEN api_key[1]
    ELSE IF env_key # "" THEN env_key ELSE "demo"

\* api_key or FRED_API_KEY
ResolveKey(api_key, env_key) ==
    IF api_key # None /\ api_key[1] # "" THEN api_key[1] ELSE env_key

\* key = api_key or FRED_API_KEY; if not key: raise ValueError(...)
LiqResolveKey(t) ==
    /\ frames[t].pc = "liq_key"
    /\ LET key == ResolveKey(frames[t].api_key, FRED_API_KEY)
       IN  IF key = "" THEN Raise(t, MissingKeyError)
           ELSE frames' = [frames EXCEPT ![t].key = key, ![t].pc = "liq_fetch"]
    /\ UNCHANGED <<caches, world>>

\* a variant of the fetch that issues a request that failed a second time
LiqFetchSeries_RetriesOnce(t, ok) ==
    /\ frames[t].pc = "liq_fetch"
    /\ LET id == SeriesIds[Len(frames[t].series) + 1]
       IN  IF frames[t].key = ""
           THEN Raise(t, MissingKeyInFetch)
           ELSE IF ok
           THEN \E observations \in upstream.fred[id] :
                    IF Unparsable(observations)
                    THEN RaiseAfter(t, id, FloatError)
                    ELSE frames' = [frames EXCEPT
                            ![t].reqs = Requested(t, id),
                            ![t].series = Append(@, _fetch_fred_series(observations)),
                            ![t].pc = IF Len(frames[t].series) + 1 = Len(SeriesIds)
                                      THEN "liq_store" ELSE "liq_fetch"]
           ELSE IF \A k \in 1..Len(frames[t].reqs) : frames[t].reqs[k] # id
           THEN frames' = [frames EXCEPT ![t].reqs = Requested(t, id)]
           ELSE RaiseAfter(t, id, UpstreamError)
    /\ UNCHANGED <<caches, world>>

\* the next of the four _fetch_fred_series calls
LiqFetchSeries(t, ok) ==
    /\ frames[t].pc = "liq_fetch"
    /\ LET id == SeriesIds[Len(frames[t].series) + 1]
       IN  IF frames[t].key = ""
           THEN Raise(t, MissingKeyInFetch)
           ELSE IF ok
           THEN \E observations \in upstream.fred[id] :
                    IF Unparsable(observations)
                    THEN RaiseAfter(t, id, FloatError)
                    ELSE frames' = [frames EXCEPT
                            ![t].reqs = Requested(t, id),
                            ![t].series = Append(@, _fetch_fred_series(observations)),
                            ![t].pc = IF Len(frames[t].series) + 1 = Len(SeriesIds)
                                      THEN "liq_store" ELSE "liq_fetch"]
           ELSE RaiseAfter(t, id, UpstreamError)
    /\ UNCHANGED <<caches, world>>

\* set_index("date") on a DataFrame built from no records raises KeyError
MergeRaisesKeyError(series) == \E i \in 1..Len(series) : series[i] = <<>>

\* merge, snapshot and history; _LIQUIDITY_CACHE is replaced and the fresh
\* result returned, unless the merge raises or leaves no row
LiqStore(t) ==
    /\ frames[t].pc = "liq_store"
    /\ LET series == frames[t].series
       IN  IF MergeRaisesKeyError(series)
           THEN Raise(t, Exc("KeyError", "date")) /\ UNCHANGED _LIQUIDITY_CACHE
           ELSE LET merged == _merge_series(series[1], series[2], series[3], series[4])
                IN  IF merged = <<>>
                    THEN Raise(t, EmptyMergeError) /\ UNCHANGED _LIQUIDITY_CACHE
                    ELSE LET current_data == MakeLiquidityData(merged)
                             history == MakeHistory(merged)
                             last_updated == Strftime(frames[t].now_epoch)
                         IN  /\ _LIQUIDITY_CACHE' =
                                    Some([fetched_at_epoch |-> frames[t].now_epoch,
                                          data |-> current_data,
                                          history |-> history,
                                          last_updated |-> last_updated])
                             /\ Return(t, [data |-> current_data,
                                            history |-> history,
                                            last_updated |-> last_updated,
                                            is_cached |-> FALSE])
    /\ UNCHANGED <<_CACHE, _STOCK_CACHE, world>>

-----------------------------------------------------------------------------
(* macro_wide.py: State and its event handlers *)

\* the defaults of the State class
InitialState ==
    [indicators |-> <<>>, last_updated |-> <<>>, is_cached |-> FALSE,
     loading |-> FALSE, error |-> "",
     selected_symbol |-> <<"N">>,
     stock_price |-> Placeholder, stock_change |-> Placeholder,
     stock_change_value |-> Placeholder, stock_change_pct |-> <<>>,
     stock_change_is_positive |-> TRUE,
     stock_volume |-> Placeholder, stock_market_cap |-> Placeholder,
     stock_last_updated |-> <<>>, stock_is_cached |-> FALSE,
     stock_loading |-> FALSE, stock_error |-> "",
     liq_fed_assets |-> Placeholder, liq_fed_assets_change |-> Placeholder,
     liq_fed_assets_is_positive |-> TRUE,
     liq_tga_balance |-> Placeholder, liq_tga_change |-> Placeholder,
     liq_tga_is_positive |-> TRUE,
     liq_rrp_balance |-> Placeholder, liq_rrp_change |-> Placeholder,
     liq_rrp_is_positive |-> TRUE,
     liq_net_liquidity |-> Placeholder, liq_net_liquidity_change |-> Placeholder,
     liq_net_is_positive |-> TRUE,
     liq_sp500 |-> Placeholder, liq_sp500_change |-> Placeholder,
     liq_sp500_is_positive |-> TRUE,
     liq_history |-> <<>>,
     liq_last_updated |-> <<>>, liq_is_cached |-> FALSE,
     liq_loading |-> FALSE, liq_error |-> ""]

\* the ttl_seconds the handlers pass to the providers
IndicatorsTTLSeconds == 300
StockTTLSeconds == 300
LiquidityTTLSeconds == 3600

\* a number of seconds in ticks of the clock
Seconds(s) == (s * TicksPerMinute) \div 60

\* the messages the handlers show for a failure they do not tell apart
RetryMessage ==
    [load_indicators |-> "indicators could not be loaded, try again later",
     load_stock_quote |-> "stock quote could not be loaded, try again later",
     load_liquidity_data |-> "liquidity data could not be loaded, try again later"]

\* load_indicators up to its call of get_indicators(ttl_seconds=300)
load_indicators(t) ==
    /\ CanCall(t)
    /\ State' = [State EXCEPT !.loading = TRUE, !.error = ""]
    /\ frames' = [frames EXCEPT ![t] =
            [Enter(t, "get_indicators", Seconds(IndicatorsTTLSeconds)) EXCEPT
                !.pc = "ind_check_none"]]
    /\ UNCHANGED <<caches, FRED_API_KEY, now, upstream>>

\* a variant of the handler whose except clause empties the list shown
IndicatorsLoaded_ClearsOnFailure(t) ==
    /\ HasEnded(t) /\ frames[t].fn = "get_indicators" /\ State.loading
    /\ State' = IF frames[t].pc = "done"
                THEN [State EXCEPT !.indicators = frames[t].ret[1].indicators,
                                   !.last_updated = frames[t].ret[1].last_updated,
                                   !.is_cached = frames[t].ret[1].is_cached,
                                   !.loading = FALSE]
                ELSE [State EXCEPT !.indicators = <<>>,
                                   !.error = RetryMessage.load_indicators,
                                   !.is_cached = FALSE,
                                   !.loading = FALSE]
    /\ UNCHANGED <<caches, FRED_API_KEY, now, upstream, frames>>

\* load_indicators from the end of the call: the result is shown, or the
\* except clause and then the finally clause run
IndicatorsLoaded(t) ==
    /\ HasEnded(t) /\ frames[t].fn = "get_indicators" /\ State.loading
    /\ State' = IF frames[t].pc = "done"
                THEN [State EXCEPT !.indicators = frames[t].ret[1].indicators,
                                   !.last_updated = frames[t].ret[1].last_updated,
                                   !.is_cached = frames[t].ret[1].is_cached,
                                   !.loading = FALSE]
                ELSE [State EXCEPT !.error = RetryMessage.load_indicators,
                                   !.is_cached = FALSE,
                                   !.loading = FALSE]
    /\ UNCHANGED <<caches, FRED_API_KEY, now, upstream, frames>>

\* a variant of the handler whose refresh asks for an entry of age below 0
load_stock_quote_Forced(t) ==
    /\ CanCall(t)
    /\ State' = [State EXCEPT !.stock_loading = TRUE, !.stock_error = ""]
    /\ frames' = [frames EXCEPT ![t] =
            [Enter(t, "get_stock_quote", 0) EXCEPT
                !.symbol = State.selected_symbol,
                !.symbol_u = NormalizeSymbol(State.selected_symbol),
                !.pc = "stk_check_none"]]
    /\ UNCHANGED <<caches, FRED_API_KEY, now, upstream>>

\* load_stock_quote up to its call of
\* get_stock_quote(symbol=self.selected_symbol, ttl_seconds=300)
load_stock_quote(t) ==
    /\ CanCall(t)
    /\ State' = [State EXCEPT !.stock_loading = TRUE, !.stock_error = ""]
    /\ frames' = [frames EXCEPT ![t] =
            [Enter(t, "get_stock_quote", Seconds(StockTTLSeconds)) EXCEPT
                !.symbol = State.selected_symbol,
                !.symbol_u = NormalizeSymbol(State.selected_symbol),
                !.pc = "stk_check_none"]]
    /\ UNCHANGED <<caches, FRED_API_KEY, now, upstream>>

\* set_selected_symbol: the symbol is selected and load_stock_quote awaited
set_selected_symbol(t, symbol) ==
    /\ CanCall(t)
    /\ State' = [State EXCEPT !.selected_symbol = symbol,
                              !.stock_loading = TRUE, !.stock_error = ""]
    /\ frames' = [frames EXCEPT ![t] =
            [Enter(t, "get_stock_quote", Seconds(StockTTLSeconds)) EXCEPT
                !.symbol = symbol,
                !.symbol_u = NormalizeSymbol(symbol),
                !.pc = "stk_check_none"]]
    /\ UNCHANGED <<caches, FRED_API_KEY, now, upstream>>

\* load_stock_quote from the end of the call
StockQuoteLoaded(t) ==
    /\ HasEnded(t) /\ frames[t].fn = "get_stock_quote" /\ State.stock_loading
    /\ State' = IF frames[t].pc = "done"
                THEN [State EXCEPT !.stock_price = frames[t].ret[1].quote.price,
                                   !.stock_change = frames[t].ret[1].quote.change,
                                   !.stock_change_value = frames[t].ret[1].quote.change_value,
                                   !.stock_change_pct = frames[t].ret[1].quote.change_pct,
                                   !.stock_change_is_positive = frames[t].ret[1].quote.is_positive,
                                   !.stock_volume = frames[t].ret[1].quote.volume,
                                   !.stock_market_cap = frames[t].ret[1].quote.market_cap,
                                   !.stock_last_updated = frames[t].ret[1].last_updated,
                                   !.stock_is_cached = frames[t].ret[1].is_cached,
                                   !.stock_loading = FALSE]
                ELSE [State EXCEPT !.stock_error = RetryMessage.load_stock_quote,
                                   !.stock_is_cached = FALSE,
                                   !.stock_loading = FALSE]
    /\ UNCHANGED <<caches, FRED_API_KEY, now, upstream, frames>>

\* load_liquidity_data up to its call of get_liquidity_data(ttl_seconds=3600)
load_liquidity_data(t) ==
    /\ CanCall(t)
    /\ State' = [State EXCEPT !.liq_loading = TRUE, !.liq_error = ""]
    /\ frames' = [frames EXCEPT ![t] =
            [Enter(t, "get_liquidity_data", Seconds(LiquidityTTLSeconds)) EXCEPT
                !.api_key = None,
                !.pc = "liq_check_none"]]
    /\ UNCHANGED <<caches, FRED_API_KEY, now, upstream>>

\* except ValueError as e: str(e); except Exception: the retry message
LiquidityErrorShown(e) ==
    IF e.type = "ValueError" THEN e.msg ELSE RetryMessage.load_liquidity_data

\* load_liquidity_data from the end of the call
LiquidityDataLoaded(t) ==
    /\ HasEnded(t) /\ frames[t].fn = "get_liquidity_data" /\ State.liq_loading
    /\ State' = IF frames[t].pc = "done"
                THEN LET data == frames[t].ret[1].data
                     IN  [State EXCEPT
                            !.liq_fed_assets = data.fed_assets_str,
                            !.liq_fed_assets_change = _fmt_pct(data.fed_assets_change, 2),
                            !.liq_fed_assets_is_positive = data.fed_assets_change[1] >= 0,
                            !.liq_tga_balance = data.tga_balance_str,
                            !.liq_tga_change = _fmt_pct(data.tga_change, 2),
                            !.liq_tga_is_positive = data.tga_change[1] <= 0,
                            !.liq_rrp_balance = data.rrp_balance_str,
                            !.liq_rrp_change = _fmt_pct(data.rrp_change, 2),
                            !.liq_rrp_is_positive = data.rrp_change[1] <= 0,
                            !.liq_net_liquidity = data.net_liquidity_str,
                            !.liq_net_liquidity_change = _fmt_pct(data.net_liquidity_change, 2),
                            !.liq_net_is_positive = data.net_liquidity_change[1] >= 0,
                            !.liq_sp500 = data.sp500_str,
                            !.liq_sp500_change = _fmt_pct(data.sp500_change, 2),
                            !.liq_sp500_is_positive = data.sp500_change[1] >= 0,
                            !.liq_history = frames[t].ret[1].history,
                            !.liq_last_updated = frames[t].ret[1].last_updated,
                            !.liq_is_cached = frames[t].ret[1].is_cached,
                            !.liq_loading = FALSE]
                ELSE [State EXCEPT !.liq_error = LiquidityErrorShown(frames[t].exc[1]),
                                   !.liq_is_cached = FALSE,
                                   !.liq_loading = FALSE]
    /\ UNCHANGED <<caches, FRED_API_KEY, now, upstream, frames>>

-----------------------------------------------------------------------------
(* The environment: the answers the upstream providers may give *)

DownloadA ==
    [multi |-> TRUE,
     Close |-> [s \in SymbolSet |-> IF s = "XRP-USD" THEN <<NaN, Some(2)>>
                                    ELSE <<Some(100), Some(105)>>]]

DownloadB ==
    [multi |-> TRUE,
     Close |-> [s \in SymbolSet |-> IF s = "^KS11" THEN <<>>
                                    ELSE <<Some(110), NaN, Some(99)>>]]

EffrA == [rate |-> 433, date |-> <<"2025-01-02">>]

SymN == <<"N">>
SymI == <<"I">>

Readable(data) == [raises |-> FALSE, data |-> data]
Unreadable == [raises |-> TRUE, data |-> <<>>]

FastInfoN ==
    ("last_price" :> Some(105)) @@ ("previous_close" :> Some(100)) @@
    ("currency" :> Some(<<"U", "S", "D">>)) @@ ("last_volume" :> Some(1234567)) @@
    ("market_cap" :> Some(1500000))

InfoI ==
    ("currentPrice" :> Some(7)) @@ ("previousClose" :> Some(8)) @@
    ("currency" :> Some(<<"k", "r", "w">>)) @@ ("volume" :> None)

\* a payload with a price and no previous close
InfoNoPrev == ("regularMarketPrice" :> Some(9)) @@ ("previousClose" :> None)

\* per symbol, the states its fast_info and info may be found in
TickerSmall ==
    (SymN :> {[fast_info |-> Readable(FastInfoN), info |-> Readable(<<>>)],
              [fast_info |-> Readable(<<>>), info |-> Readable(InfoNoPrev)]}) @@
    (SymI :> {[fast_info |-> Unreadable, info |-> Readable(InfoI)]})

\* per series, the observation lists the source may return: a list with a
\* missing-value marker, a list with no usable value, an unparsable value,
\* a list of NaN only
FredSmall ==
    ("WALCL" :> {<<Obs(1, 900), Obs(8, 1000)>>}) @@
    ("WDTGAL" :> {<<Obs(1, 100), ObsText(8, ".")>>, <<ObsText(1, "."), ObsText(8, "")>>}) @@
    ("RRPONTSYD" :> {<<Obs(2, 1)>>}) @@
    ("SP500" :> {<<Obs(1, 50), Obs(2, 55)>>, <<Obs(1, 50), Obs(2, 55), Obs(9, 54)>>,
                 <<Obs(1, 50), ObsText(2, "bad")>>, <<ObsText(3, "nan")>>})

UpstreamSmall ==
    [download |-> {DownloadA, DownloadB}, effr |-> {EffrA},
     ticker |-> TickerSmall, fred |-> FredSmall]

\* symbol arguments: a symbol as is, in lower case with surrounding whitespace
RawSymbols == {<<"N">>, <<"n">>, <<" ", "n">>, <<"I">>, <<"i", "\t">>}

\* api_key arguments; the process environment holds "" or a key
ApiKeys == {None, Some(""), Some("k")}
EnvKeys == {"", "envkey"}

-----------------------------------------------------------------------------
(* Specifications *)

Init ==
    /\ _CACHE = None
    /\ _STOCK_CACHE = None
    /\ _LIQUIDITY_CACHE = None
    /\ FRED_API_KEY \in EnvKeys
    /\ now = 0
    /\ upstream = UpstreamSmall
    /\ frames = [t \in Threads |-> NoFrame]
    /\ State = InitialState

\* the caller takes the result or the exception of its call and goes on
Resume(t) ==
    /\ HasEnded(t)
    /\ frames' = [frames EXCEPT ![t] =
            [NoFrame EXCEPT !.failed =
                IF frames[t].pc = "raised" THEN Some(frames[t].pre)
                ELSE IF frames[t].ret[1].is_cached THEN frames[t].failed
                ELSE None]]
    /\ UNCHANGED <<caches, world>>

\* time passes, up to a last tick (a caller resumes at once)
Tick(last) ==
    /\ \A t \in Threads : ~HasEnded(t)
    /\ now < last
    /\ now' = now + 1
    /\ UNCHANGED <<caches, FRED_API_KEY, upstream, frames, State>>

\* The three providers share no state, so a run exercises one of them: a
\* provider is called while the slots of the other two are still empty.
Unused(slots) == \A i \in 1..Len(slots) : slots[i] = None

\* a thread starts a provider call, its arguments drawn from the given sets
Call(t, ttls, symbols, api_keys) ==
    \/ /\ Unused(<<_STOCK_CACHE, _LIQUIDITY_CACHE>>)
       /\ \E ttl \in ttls : get_indicators(t, ttl)
    \/ /\ Unused(<<_CACHE, _LIQUIDITY_CACHE>>)
       /\ \E ttl \in ttls, symbol \in symbols : get_stock_quote(t, symbol, ttl)
    \/ /\ Unused(<<_CACHE, _STOCK_CACHE>>)
       /\ \E ttl \in ttls, api_key \in api_keys : get_liquidity_data(t, ttl, api_key)

\* a thread takes the next step of its call; oks tells whether the upstream
\* requests may succeed (TRUE) and may fail (FALSE)
IndStep(t, oks) ==
    \/ IndCheckNone(t) \/ IndCheckAge(t) \/ IndReadIndicators(t) \/ IndReadLastUpdated(t)
    \/ \E ok \in oks : IndFetchQuotes(t, ok)
    \/ \E ok \in oks : IndFetchEffr(t, ok)
    \/ IndStore(t)

StkStep(t) ==
    \/ StkCheckNone(t) \/ StkCheckSymbol(t) \/ StkCheckAge(t)
    \/ StkReadQuote(t) \/ StkReadLastUpdated(t) \/ StkFetch(t) \/ StkStore(t)

LiqStep(t, oks) ==
    \/ LiqCheckNone(t) \/ LiqCheckAge(t)
    \/ LiqReadData(t) \/ LiqReadHistory(t) \/ LiqReadLastUpdated(t)
    \/ LiqResolveKey(t)
    \/ \E ok \in oks : LiqFetchSeries(t, ok)
    \/ LiqStore(t)

Step(t, oks) == IndStep(t, oks) \/ StkStep(t) \/ LiqStep(t, oks)

\* Calls one after another: every call runs to its end before the next starts
Next == Tick(MaxTime) \/ Call(1, TTLs, RawSymbols, ApiKeys) \/ Step(1, BOOLEAN) \/ Resume(1)

Spec == Init /\ [][Next]_vars

\* Calls of several threads, interleaved at every read and write of a cache
\* global (the providers take no lock; the caches are process-wide), with an
\* upstream that answers every request and in one way, around the end of a
\* minute.  The handlers of macro_wide.py call the providers one at a time;
\* this is the providers called from threads.
UpstreamConc ==
    [download |-> {DownloadA}, effr |-> {EffrA},
     ticker |-> (SymN :> {[fast_info |-> Readable(FastInfoN), info |-> Readable(<<>>)]}) @@
                (SymI :> {[fast_info |-> Unreadable, info |-> Readable(InfoI)]}),
     fred |-> ("WALCL" :> {<<Obs(1, 900), Obs(8, 1000)>>}) @@
              ("WDTGAL" :> {<<Obs(1, 100), ObsText(8, ".")>>}) @@
              ("RRPONTSYD" :> {<<Obs(2, 1)>>}) @@
              ("SP500" :> {<<Obs(1, 50), Obs(2, 55)>>})]

InitConc ==
    /\ _CACHE = None
    /\ _STOCK_CACHE = None
    /\ _LIQUIDITY_CACHE = None
    /\ FRED_API_KEY = "envkey"
    /\ now = TicksPerMinute - 1
    /\ upstream = UpstreamConc
    /\ frames = [t \in Threads |-> NoFrame]
    /\ State = InitialState

NextConc ==
    \/ Tick(TicksPerMinute)
    \/ \E t \in Threads :
            Call(t, {0, MaxTTL}, {SymN, SymI}, {None}) \/ Step(t, {TRUE}) \/ Resume(t)

SpecConc == InitConc /\ [][NextConc]_vars

\* The three providers in one process: calls one after another, of any
\* provider whatever the other slots hold, with an upstream that answers in
\* one way or fails, around the end of a minute
NextShared ==
    \/ Tick(TicksPerMinute)
    \/ \E ttl \in {0, MaxTTL} : get_indicators(1, ttl)
    \/ \E ttl \in {0, MaxTTL}, symbol \in {SymN, SymI} : get_stock_quote(1, symbol, ttl)
    \/ \E ttl \in {0, MaxTTL} : get_liquidity_data(1, ttl, None)
    \/ Step(1, BOOLEAN)
    \/ Resume(1)

SpecShared == InitConc /\ [][NextShared]_vars

\* Calls of get_liquidity_data from several threads, interleaved at every
\* read and write of _LIQUIDITY_CACHE, while the index series gains a day
\* between two fetches
InitRace ==
    /\ _CACHE = None
    /\ _STOCK_CACHE = None
    /\ _LIQUIDITY_CACHE = None
    /\ FRED_API_KEY = "envkey"
    /\ now = 0
    /\ upstream = [UpstreamConc EXCEPT !.fred["SP500"] =
                        {<<Obs(1, 50), Obs(2, 55)>>, <<Obs(1, 50), Obs(2, 55), Obs(9, 54)>>}]
    /\ frames = [t \in Threads |-> NoFrame]
    /\ State = InitialState

NextRace ==
    \E t \in Threads :
        \/ \E ttl \in {0, MaxTTL} : get_liquidity_data(t, ttl, None)
        \/ LiqStep(t, {TRUE})
        \/ Resume(t)

SpecRace == InitRace /\ [][NextRace]_vars

\* The stock quote over every payload: each price alias absent (None), zero
\* or a price, the volume absent or not, read from fast_info or from info
PriceKeys == {LastAliases[i] : i \in 1..Len(LastAliases)} \cup
             {PrevAliases[i] : i \in 1..Len(PrevAliases)}
PayloadValues == {None, Some(0), Some(5)}

TickerWith(payload, via_info) ==
    IF via_info THEN [fast_info |-> Unreadable, info |-> Readable(payload)]
    ELSE [fast_info |-> Readable(payload), info |-> Readable(<<>>)]

InitQuote ==
    /\ _CACHE = None
    /\ _STOCK_CACHE = None
    /\ _LIQUIDITY_CACHE = None
    /\ FRED_API_KEY = ""
    /\ now = 0
    /\ \E prices \in [PriceKeys -> PayloadValues], volume \in {None, Some(1234)},
          via_info \in BOOLEAN :
            upstream = [UpstreamSmall EXCEPT !.ticker =
                (SymN :> {TickerWith(prices @@ ("volume" :> volume), via_info)})]
    /\ frames = [t \in Threads |-> NoFrame]
    /\ State = InitialState

NextQuote ==
    \/ \E ttl \in {MaxTTL} : get_stock_quote(1, SymN, ttl)
    \/ StkStep(1)
    \/ Resume(1)

SpecQuote == InitQuote /\ [][NextQuote]_vars

\* The stock quote over the states of the two sources: each of fast_info and
\* info gives a payload, gives nothing, or raises when it is read
InitSources ==
    /\ _CACHE = None
    /\ _STOCK_CACHE = None
    /\ _LIQUIDITY_CACHE = None
    /\ FRED_API_KEY = ""
    /\ now = 0
    /\ \E fast_info \in {Readable(FastInfoN), Readable(InfoNoPrev), Readable(<<>>), Unreadable},
          info \in {Readable(InfoI), Readable(InfoNoPrev), Readable(<<>>), Unreadable} :
            upstream = [UpstreamSmall EXCEPT !.ticker =
                (SymN :> {[fast_info |-> fast_info, info |-> info]})]
    /\ frames = [t \in Threads |-> NoFrame]
    /\ State = InitialState

SpecSources == InitSources /\ [][NextQuote]_vars

\* The indicators over every batch of closes: per basket symbol no row, one
\* price after a NaN, or two prices around a NaN
ClosePatterns == {<<>>, <<NaN, Some(100)>>, <<Some(110), NaN, Some(99)>>}

InitBasket ==
    /\ _CACHE = None
    /\ _STOCK_CACHE = None
    /\ _LIQUIDITY_CACHE = None
    /\ FRED_API_KEY = ""
    /\ now = 0
    /\ \E close \in [SymbolSet -> ClosePatterns] :
            upstream = [UpstreamSmall EXCEPT !.download = {[multi |-> TRUE, Close |-> close]}]
    /\ frames = [t \in Threads |-> NoFrame]
    /\ State = InitialState

NextBasket ==
    \/ \E ttl \in {MaxTTL} : get_indicators(1, ttl)
    \/ IndStep(1, BOOLEAN)
    \/ Resume(1)

SpecBasket == InitBasket /\ [][NextBasket]_vars

\* The two market providers over pairs of prices: every basket symbol closes
\* at prev and then at last, and the ticker reports last and prev under an
\* alias each
PairValues == {0 - 3, 0, 3, 100, 110}

InitPairs ==
    /\ _CACHE = None
    /\ _STOCK_CACHE = None
    /\ _LIQUIDITY_CACHE = None
    /\ FRED_API_KEY = ""
    /\ now = 0
    /\ \E last \in PairValues, prev \in PairValues,
          last_key \in {"last_price", "currentPrice"},
          prev_key \in {"previous_close", "regularMarketPreviousClose"} :
            upstream = [UpstreamSmall EXCEPT
                !.download = {[multi |-> TRUE,
                               Close |-> [sym \in SymbolSet |-> <<Some(prev), Some(last)>>]]},
                !.ticker = (SymN :> {TickerWith((last_key :> Some(last)) @@
                                                (prev_key :> Some(prev)), FALSE)})]
    /\ frames = [t \in Threads |-> NoFrame]
    /\ State = InitialState

NextPairs ==
    \/ /\ _STOCK_CACHE = None
       /\ \E ttl \in {MaxTTL} : get_indicators(1, ttl)
    \/ IndStep(1, {TRUE})
    \/ /\ _CACHE = None
       /\ \E ttl \in {MaxTTL} : get_stock_quote(1, SymN, ttl)
    \/ StkStep(1)
    \/ Resume(1)

SpecPairs == InitPairs /\ [][NextPairs]_vars

\* The liquidity provider over the values of two weeks: every series reports
\* at dates 1 and 2; assets and the account balance in millions, the reverse
\* repo balance in billions (so net liquidity may be negative)
TwoWeeks(values) == {<<Obs(1, a), Obs(2, b)>> : a \in values, b \in values}

InitLiquidity ==
    /\ _CACHE = None
    /\ _STOCK_CACHE = None
    /\ _LIQUIDITY_CACHE = None
    /\ FRED_API_KEY = "envkey"
    /\ now = 0
    /\ \E walcl \in TwoWeeks({800, 900}), wdtgal \in TwoWeeks({0, 100}),
          rrpontsyd \in TwoWeeks({0, 1}), sp500 \in TwoWeeks({50, 55}) :
            upstream = [UpstreamSmall EXCEPT !.fred =
                ("WALCL" :> {walcl}) @@ ("WDTGAL" :> {wdtgal}) @@
                ("RRPONTSYD" :> {rrpontsyd}) @@ ("SP500" :> {sp500})]
    /\ frames = [t \in Threads |-> NoFrame]
    /\ State = InitialState

NextLiquidity ==
    \/ \E ttl \in {MaxTTL} : get_liquidity_data(1, ttl, None)
    \/ LiqStep(1, {TRUE})
    \/ Resume(1)

SpecLiquidity == InitLiquidity /\ [][NextLiquidity]_vars

\* The liquidity provider over the dates of the observations: each series
\* reports a value (base + date) at the dates of a non-empty subset of
\* FirstDate..LastDate, or starts with a missing value ".", or has nothing but
\* a missing value, or has a missing value between two values
FirstDate == 1
LastDate == 3

RECURSIVE ObsAt(_, _)
\* the observations of a series at the dates of a set, in ascending order
ObsAt(dates, base) ==
    IF dates = {} THEN <<>>
    ELSE LET d == CHOOSE x \in dates : \A y \in dates : x <= y
         IN  <<Obs(d, base + d)>> \o ObsAt(dates \ {d}, base)

DatePatterns(base) ==
    {ObsAt(dates, base) : dates \in (SUBSET (FirstDate..LastDate)) \ {{}}}
    \cup {<<ObsText(FirstDate, ".")>> \o ObsAt((FirstDate + 1)..LastDate, base),
          <<ObsText(FirstDate, ".")>>,
          ObsAt({FirstDate}, base) \o <<ObsText(FirstDate + 1, ".")>>
            \o ObsAt((FirstDate + 2)..LastDate, base)}

InitMerge ==
    /\ _CACHE = None
    /\ _STOCK_CACHE = None
    /\ _LIQUIDITY_CACHE = None
    /\ FRED_API_KEY = "envkey"
    /\ now = 0
    /\ \E walcl \in DatePatterns(900), wdtgal \in DatePatterns(100),
          rrpontsyd \in DatePatterns(0 - FirstDate), sp500 \in DatePatterns(50) :
            upstream = [UpstreamSmall EXCEPT !.fred =
                ("WALCL" :> {walcl}) @@ ("WDTGAL" :> {wdtgal}) @@
                ("RRPONTSYD" :> {rrpontsyd}) @@ ("SP500" :> {sp500})]
    /\ frames = [t \in Threads |-> NoFrame]
    /\ State = InitialState

SpecMerge == InitMerge /\ [][NextLiquidity]_vars

\* The liquidity provider over the length of the aligned table: the assets
\* series reports a value of its own at each of 1 to MaxRows dates, the
\* other series at the first date alone or at every date
MaxRows == 7

Daily(rows, base) == [d \in 1..rows |-> Obs(d, base + 10 * d)]

InitWeek ==
    /\ _CACHE = None
    /\ _STOCK_CACHE = None
    /\ _LIQUIDITY_CACHE = None
    /\ FRED_API_KEY = "envkey"
    /\ now = 0
    /\ \E rows \in 1..MaxRows, tga \in {0, 100}, rrp \in {0, 1, 2} :
        \E sp500 \in {<<Obs(1, 50)>>, Daily(rows, 50)} :
            upstream = [UpstreamSmall EXCEPT !.fred =
                ("WALCL" :> {Daily(rows, 800)}) @@ ("WDTGAL" :> {<<Obs(1, tga)>>}) @@
                ("RRPONTSYD" :> {<<Obs(1, rrp)>>}) @@ ("SP500" :> {sp500})]
    /\ frames = [t \in Threads |-> NoFrame]
    /\ State = InitialState

SpecWeek == InitWeek /\ [][NextLiquidity]_vars

\* The dashboard: the three pages load and refresh through the handlers of
\* State, one handler at a time, the user selects a stock, and the clock is
\* looked at just before and at the age of each handler's TTL.  As in Call, a
\* page is loaded while the slots of the other two providers are still empty.
HandlerTimes ==
    {0, Seconds(StockTTLSeconds) - 1, Seconds(StockTTLSeconds),
     Seconds(LiquidityTTLSeconds) - 1, Seconds(LiquidityTTLSeconds)}

TickTo(times) ==
    /\ \A t \in Threads : ~HasEnded(t)
    /\ \E later \in times : later > now /\ now' = later
    /\ UNCHANGED <<caches, FRED_API_KEY, upstream, frames, State>>

NextHandlers ==
    \/ TickTo(HandlerTimes)
    \/ (Unused(<<_STOCK_CACHE, _LIQUIDITY_CACHE>>) /\ load_indicators(1))
    \/ IndStep(1, BOOLEAN) \/ IndicatorsLoaded(1)
    \/ (Unused(<<_CACHE, _LIQUIDITY_CACHE>>) /\ load_stock_quote(1))
    \/ (Unused(<<_CACHE, _LIQUIDITY_CACHE>>) /\ \E symbol \in {SymN, SymI} : set_selected_symbol(1, symbol))
    \/ StkStep(1) \/ StockQuoteLoaded(1)
    \/ (Unused(<<_CACHE, _STOCK_CACHE>>) /\ load_liquidity_data(1))
    \/ LiqStep(1, BOOLEAN) \/ LiquidityDataLoaded(1)
    \/ (~(State.loading \/ State.stock_loading \/ State.liq_loading) /\ Resume(1))

SpecHandlers == Init /\ [][NextHandlers]_vars

-----------------------------------------------------------------------------
(* Properties.  A call is inspected when it has ended: frames[t] then holds *)
(* its arguments, the clock it read, its requests, its result or exception *)
(* and the cache slots as it found them.                                   *)

\* the slot of a provider in caches and in pre
Slot(fn) == CASE fn = "get_indicators" -> 1
              [] fn = "get_stock_quote" -> 2
              [] fn = "get_liquidity_data" -> 3

EndedFrames == {frames[t] : t \in {u \in Threads : HasEnded(u)}}

\* the entry a call found, younger than its TTL and, for a stock quote, of its symbol
FoundValid(f) ==
    /\ f.pre[Slot(f.fn)] # None
    /\ f.now_epoch - f.pre[Slot(f.fn)][1].fetched_at_epoch < f.ttl_seconds
    /\ f.fn = "get_stock_quote" => f.pre[2][1].symbol = f.symbol_u

\* what a call returns when it serves the entry e
Served(fn, e) ==
    CASE fn = "get_indicators" ->
            [indicators |-> e.indicators, last_updated |-> e.last_updated, is_cached |-> TRUE]
      [] fn = "get_stock_quote" ->
            [quote |-> e.quote, last_updated |-> e.last_updated, is_cached |-> TRUE]
      [] fn = "get_liquidity_data" ->
            [data |-> e.data, history |-> e.history, last_updated |-> e.last_updated,
             is_cached |-> TRUE]

\* C1: a call that finds an entry younger than its TTL (for a stock quote: of
\* the normalized requested symbol) returns that entry's payload and
\* last_updated with is_cached = TRUE and issues no upstream request.
C1_ValidEntryIsServed ==
    \A f \in EndedFrames :
        FoundValid(f) =>
            /\ f.pc = "done"
            /\ f.ret[1] = Served(f.fn, f.pre[Slot(f.fn)][1])
            /\ f.reqs = <<>>

\* C1 happens: a liquidity call served an entry one tick old
C1_Witness ==
    \E f \in EndedFrames :
        /\ f.fn = "get_liquidity_data" /\ FoundValid(f)
        /\ f.now_epoch - f.pre[3][1].fetched_at_epoch = 1
        /\ f.pc = "done" /\ f.ret[1].is_cached

\* the entry a call found is missing or as old as its TTL or older
FoundStaleOrNone(f) ==
    \/ f.pre[Slot(f.fn)] = None
    \/ f.now_epoch - f.pre[Slot(f.fn)][1].fetched_at_epoch >= f.ttl_seconds

\* the requests of one fetch cycle of a provider
FetchCycles(fn) ==
    CASE fn = "get_indicators" -> {<<"yf.download", "nyfed.effr">>}
      [] fn = "get_stock_quote" -> {<<"fast_info">>, <<"fast_info", "info">>}
      [] fn = "get_liquidity_data" -> {SeriesIds}

IsPrefix(a, b) == Len(a) <= Len(b) /\ a = SubSeq(b, 1, Len(a))

\* the entry that a fresh result r, fetched by the call f, makes
EntryOf(f, r) ==
    CASE f.fn = "get_indicators" ->
            [fetched_at_epoch |-> f.now_epoch, indicators |-> r.indicators,
             last_updated |-> r.last_updated]
      [] f.fn = "get_stock_quote" ->
            [fetched_at_epoch |-> f.now_epoch, symbol |-> f.symbol_u, quote |-> r.quote,
             last_updated |-> r.last_updated]
      [] f.fn = "get_liquidity_data" ->
            [fetched_at_epoch |-> f.now_epoch, data |-> r.data, history |-> r.history,
             last_updated |-> r.last_updated]

\* C2: a call that finds no entry, or one whose age is >= its TTL (equal
\* included), is never served from the cache; when it returns it has issued
\* the requests of exactly one fetch cycle, the slot holds the entry made of
\* its result, and is_cached = FALSE; when it raises it has issued no request
\* twice (its requests are the beginning of one cycle).
C2_StaleEntryIsRefetched ==
    \A f \in EndedFrames :
        FoundStaleOrNone(f) =>
            /\ f.pc = "done" =>
                /\ f.ret[1].is_cached = FALSE
                /\ f.reqs \in FetchCycles(f.fn)
                /\ caches[Slot(f.fn)] = Some(EntryOf(f, f.ret[1]))
            /\ f.pc = "raised" => \E c \in FetchCycles(f.fn) : IsPrefix(f.reqs, c)

\* C2 happens: an indicator call found an entry exactly as old as its TTL and refetched
C2_Witness ==
    \E f \in EndedFrames :
        /\ f.fn = "get_indicators" /\ f.pre[1] # None /\ f.ttl_seconds > 0
        /\ f.now_epoch - f.pre[1][1].fetched_at_epoch = f.ttl_seconds
        /\ f.pc = "done" /\ ~f.ret[1].is_cached
        /\ _CACHE # f.pre[1]

\* the quotes the upstream may give for a symbol
QuotesFor(symbol) ==
    {MakeStockQuote(got.payload, got.source) :
        got \in {_fetch_yfinance_stock_quote(ticker) : ticker \in TickerOf(upstream, symbol)}}

StockFrames == {f \in EndedFrames : f.fn = "get_stock_quote"}

\* C3: a stock call that finds the quote of another symbol (however young)
\* is not served from the cache and fetches; the quote a call returns is one
\* the upstream gives for its own normalized symbol, never one fetched for
\* another symbol; and when a call has returned, the slot holds its symbol.
C3_NoQuoteOfAnotherSymbol ==
    \A f \in StockFrames :
        /\ (f.pre[2] # None /\ f.pre[2][1].symbol # f.symbol_u) =>
                /\ f.reqs # <<>>
                /\ f.pc = "done" => ~f.ret[1].is_cached /\ _STOCK_CACHE # f.pre[2]
        /\ f.pc = "done" =>
                /\ f.ret[1].quote \in QuotesFor(f.symbol_u)
                /\ \A other \in {SymN, SymI} \ {f.symbol_u} :
                        f.ret[1].quote \notin QuotesFor(other)
                /\ _STOCK_CACHE # None /\ _STOCK_CACHE[1].symbol = f.symbol_u

\* C3 happens: symbol I is requested while the slot holds a young quote of N
C3_Witness ==
    \E f \in StockFrames :
        /\ f.pre[2] # None /\ f.pre[2][1].symbol = SymN /\ f.symbol_u = SymI
        /\ f.now_epoch - f.pre[2][1].fetched_at_epoch < f.ttl_seconds
        /\ f.pc = "done" /\ _STOCK_CACHE[1].symbol = SymI

\* C4: when a call raises, the slot of its provider (and the other two) is
\* what the call found and nothing is returned; and until a fetch succeeds,
\* every later call finds the slots the failed call found and, when the entry
\* passes its TTL and symbol check, is served that entry with is_cached = TRUE.
C4_FailureLeavesCache ==
    \A f \in EndedFrames :
        /\ f.pc = "raised" => caches = f.pre /\ f.ret = None
        /\ f.failed # None =>
                /\ f.pre = f.failed[1]
                /\ FoundValid(f) =>
                        /\ f.pc = "done"
                        /\ f.ret[1] = Served(f.fn, f.failed[1][Slot(f.fn)][1])

\* C4 happens: a refresh of an entry failed, then a call with a longer TTL is served the entry
C4_Witness ==
    \E f \in EndedFrames :
        /\ f.failed # None /\ f.failed[1][Slot(f.fn)] # None
        /\ f.pc = "done" /\ f.ret[1].is_cached
        /\ caches = f.failed[1]

\* no credential: the argument is absent or empty and the environment key is empty
NoCredential(f) == (f.api_key = None \/ f.api_key = Some("")) /\ FRED_API_KEY = ""

LiquidityFrames == {f \in EndedFrames : f.fn = "get_liquidity_data"}

\* C5 as stated: with no credential every call fails with the
\* missing-credential error and leaves the liquidity cache as it was.
C5_Original ==
    \A f \in LiquidityFrames :
        NoCredential(f) =>
            /\ f.pc = "raised" /\ f.exc = Some(MissingKeyError)
            /\ _LIQUIDITY_CACHE = f.pre[3]

\* C5 amended: with no credential a call that is not served a still-valid
\* entry fails with the missing-credential error before any upstream request
\* and leaves the liquidity cache as it was; a call that finds a still-valid
\* entry is served it, credential or not.
C5_NoCredentialUnlessServed ==
    \A f \in LiquidityFrames :
        NoCredential(f) =>
            /\ _LIQUIDITY_CACHE = f.pre[3]
            /\ f.reqs = <<>>
            /\ IF FoundValid(f)
               THEN f.pc = "done" /\ f.ret[1].is_cached
               ELSE f.pc = "raised" /\ f.exc = Some(MissingKeyError)

\* C5 happens: no credential and a stale entry in the slot
C5_Witness ==
    \E f \in LiquidityFrames :
        /\ NoCredential(f) /\ f.pre[3] # None /\ ~FoundValid(f)
        /\ f.pc = "raised" /\ f.exc = Some(MissingKeyError)

\* C6 (refuted by the code): a call that returns from the cache returns the
\* payload and the last_updated of the one entry whose age (and symbol) it
\* checked, also when another call replaces the entry meanwhile.
C6_HitReadsOneEntry ==
    \A f \in EndedFrames :
        (f.pc = "done" /\ f.ret[1].is_cached) =>
            /\ f.checked # None
            /\ f.ret[1] = Served(f.fn, f.checked[1])

\* C6 happens: a call returned from the cache although the slot was replaced
\* between its age check and its return
C6_Witness ==
    \E f \in EndedFrames :
        /\ f.pc = "done" /\ f.ret[1].is_cached
        /\ f.checked # None /\ caches[Slot(f.fn)] # f.checked

\* blanks, and the letters that have an upper-case form, as pairs
Blank(c) == c \in {" ", "\t"}
CasePairs == {<<"n", "N">>, <<"i", "I">>}
UpperCaseOf(c) == IF \E q \in CasePairs : q[1] = c
                  THEN (CHOOSE q \in CasePairs : q[1] = c)[2] ELSE c

\* key is raw without its leading and trailing blanks, in upper case
NormalizedFrom(raw, key) ==
    \E i, j \in 0..Len(raw) :
        /\ i + j <= Len(raw)
        /\ \A p \in 1..i : Blank(raw[p])
        /\ \A p \in (Len(raw) - j + 1)..Len(raw) : Blank(raw[p])
        /\ i + j < Len(raw) => ~Blank(raw[i + 1]) /\ ~Blank(raw[Len(raw) - j])
        /\ Len(key) = Len(raw) - i - j
        /\ \A p \in 1..Len(key) : key[p] = UpperCaseOf(raw[i + p])

\* a key has no blank at either end and no lower-case letter
IsNormalized(key) ==
    /\ key # <<>> => ~Blank(key[1]) /\ ~Blank(key[Len(key)])
    /\ \A p \in 1..Len(key) : \A q \in CasePairs : key[p] # q[1]

\* the payloads the upstream may give for a symbol
PayloadsFor(symbol) ==
    {_fetch_yfinance_stock_quote(ticker).payload : ticker \in TickerOf(upstream, symbol)}

\* C7: the key in the slot is always normalized; a call that fetches asks the
\* upstream for the trimmed, upper-cased symbol and stores under it; and a call
\* whose symbol differs from the key of a young entry only in letter case or
\* surrounding whitespace is a cache hit.
C7_SymbolIsNormalized ==
    /\ _STOCK_CACHE # None => IsNormalized(_STOCK_CACHE[1].symbol)
    /\ \A f \in StockFrames :
        /\ (f.pc = "done" /\ ~f.ret[1].is_cached) =>
                /\ NormalizedFrom(f.symbol, _STOCK_CACHE[1].symbol)
                /\ \E key \in {SymN, SymI} :
                        NormalizedFrom(f.symbol, key) /\ f.payload \in PayloadsFor(key)
        /\ ( /\ f.pre[2] # None
             /\ NormalizedFrom(f.symbol, f.pre[2][1].symbol)
             /\ f.now_epoch - f.pre[2][1].fetched_at_epoch < f.ttl_seconds ) =>
                /\ f.pc = "done" /\ f.ret[1].is_cached /\ f.reqs = <<>>
                /\ f.ret[1].quote = f.pre[2][1].quote

\* C7 happens: a symbol in lower case with a trailing tab hits the entry of its key
C7_Witness ==
    \E f \in StockFrames :
        /\ f.pre[2] # None /\ f.symbol # f.pre[2][1].symbol /\ ~IsNormalized(f.symbol)
        /\ NormalizedFrom(f.symbol, f.pre[2][1].symbol)
        /\ f.pc = "done" /\ f.ret[1].is_cached

\* a quote without a price: the degenerate result
IsDegenerate(quote) == quote.price = Placeholder

\* C8: a stock call that misses and returns, with a full quote or with the
\* degenerate one, leaves in the slot the entry keyed by its normalized symbol
\* that holds the quote it returned; and a call that finds a young entry of its
\* symbol, degenerate or not, returns that quote with is_cached = TRUE and
\* issues no upstream request.
C8_MissAlwaysStores ==
    \A f \in StockFrames :
        /\ (f.pc = "done" /\ ~f.ret[1].is_cached) =>
                /\ f.reqs # <<>>
                /\ _STOCK_CACHE # None
                /\ _STOCK_CACHE[1].symbol = f.symbol_u
                /\ _STOCK_CACHE[1].quote = f.ret[1].quote
                /\ _STOCK_CACHE[1].fetched_at_epoch = f.now_epoch
        /\ ( /\ f.pre[2] # None /\ f.pre[2][1].symbol = f.symbol_u
             /\ f.now_epoch - f.pre[2][1].fetched_at_epoch < f.ttl_seconds ) =>
                /\ f.pc = "done" /\ f.reqs = <<>>
                /\ f.ret[1].is_cached
                /\ f.ret[1].quote = f.pre[2][1].quote
                /\ IsDegenerate(f.pre[2][1].quote) => IsDegenerate(f.ret[1].quote)

\* C8 happens: a degenerate quote was stored and a later call is served it
C8_Witness ==
    \E f \in StockFrames :
        /\ f.pre[2] # None /\ IsDegenerate(f.pre[2][1].quote)
        /\ f.pc = "done" /\ f.ret[1].is_cached /\ IsDegenerate(f.ret[1].quote)

\* no alias of a field has a value in the payload
NoValue(payload, aliases) == \A i \in 1..Len(aliases) : Get(payload, aliases[i]) = None

\* the last price or the previous close of the payload a call fetched cannot be resolved
Unresolved(f) ==
    /\ f.reqs # <<>>
    /\ NoValue(f.payload, LastAliases) \/ NoValue(f.payload, PrevAliases)

FixedOrder ==
    << <<"KOSPI", "^KS11">>, <<"KOSDAQ", "^KQ11">>, <<"S&P 500", "^GSPC">>,
       <<"NASDAQ", "^IXIC">>, <<"USD/KRW", "KRW=X">>, <<"Bitcoin", "BTC-USD">>,
       <<"Ethereum", "ETH-USD">>, <<"XRP", "XRP-USD">> >>

\* the number of prices in a series of closes
Observations(series) == Cardinality({i \in 1..Len(series) : series[i] # NaN})

\* the symbols for which a batch supplies fewer than two prices
Affected(df) == {sym \in SymbolSet : Observations(df.Close[sym]) < 2}

IndicatorFrames == {f \in EndedFrames : f.fn = "get_indicators"}

\* C10: whatever symbols the batch supplies fewer than two prices for, an
\* indicator call that fetches raises only when an upstream request fails, and
\* otherwise returns 9 entries, the 8 of the basket in the fixed order and
\* then the policy rate; exactly the entries of the affected symbols have the
\* placeholder as value and as change, with is_positive = TRUE; the others
\* have a value and a change; and the slot holds this list.
C10_PlaceholderPerSymbol ==
    \A f \in IndicatorFrames :
        f.reqs # <<>> =>
            /\ f.pc = "raised" => f.exc = Some(UpstreamError)
            /\ f.pc = "done" =>
                \E df \in upstream.download :
                    LET ind == f.ret[1].indicators
                    IN  /\ Len(ind) = 9
                        /\ \A i \in 1..8 :
                            /\ ind[i].name = FixedOrder[i][1]
                            /\ IF FixedOrder[i][2] \in Affected(df)
                               THEN /\ ind[i].value = Placeholder
                                    /\ ind[i].change = Placeholder
                                    /\ ind[i].is_positive
                               ELSE /\ ind[i].value # Placeholder
                                    /\ ind[i].change # Placeholder
                        /\ ind[9].name = "EFFR" /\ ind[9].source = "nyfed"
                        /\ ~f.ret[1].is_cached
                        /\ _CACHE # None /\ _CACHE[1].indicators = ind

\* C10 happens: three symbols of the basket are affected, two of them the first and the last
C10_Witness ==
    \E f \in IndicatorFrames :
        /\ f.reqs # <<>> /\ f.pc = "done"
        /\ \E df \in upstream.download :
              /\ Cardinality(Affected(df)) = 3
              /\ {"^KS11", "XRP-USD"} \subseteq Affected(df)
        /\ f.ret[1].indicators[1].value = Placeholder
        /\ f.ret[1].indicators[2].value # Placeholder
        /\ _CACHE[1].indicators = f.ret[1].indicators

\* the number a percent string shows, in hundredths of a percent: an optional
\* sign, digits, a point and two digits, "%"
DecimalDigits == <<"0", "1", "2", "3", "4", "5", "6", "7", "8", "9">>
DigitValue(c) == (CHOOSE i \in 1..10 : DecimalDigits[i] = c) - 1
RECURSIVE DigitsValue(_)
DigitsValue(str) ==
    IF str = <<>> THEN 0
    ELSE 10 * DigitsValue(SubSeq(str, 1, Len(str) - 1)) + DigitValue(str[Len(str)])
ShownHundredths(str) ==
    LET body == SubSeq(str, 1, Len(str) - 1)
        signed == body[1] \in {"+", "-"}
        digits == SelectSeq(IF signed THEN Tail(body) ELSE body, LAMBDA c : c # ".")
    IN  IF body[1] = "-" THEN 0 - DigitsValue(digits) ELSE DigitsValue(digits)

\* the string shows (last - prev) / prev * 100 to the nearest hundredth, and 0 when prev = 0
ShowsPercentChange(str, last, prev) ==
    LET shown == ShownHundredths(str)
        off == shown * prev - (last - prev) * 10000
    IN  /\ str[Len(str)] = "%"
        /\ IF prev = 0 THEN shown = 0
           ELSE 2 * (IF off < 0 THEN 0 - off ELSE off) <= (IF prev < 0 THEN 0 - prev ELSE prev)

\* the prices of a series of closes, and the alias values of a payload
Prices(series) == SelectSeq(series, LAMBDA v : v # NaN)
ValuedAliases(payload, aliases) ==
    {i \in 1..Len(aliases) : Get(payload, aliases[i]) # None}
OnlyValue(payload, aliases) ==
    Get(payload, aliases[CHOOSE i \in ValuedAliases(payload, aliases) : TRUE])[1]

\* C11: the change of every indicator with two prices, and the change_pct of
\* every stock quote with a price, shows (last - previous) / previous * 100
\* when previous is not 0 and 0 when previous is 0; the call returns (nothing
\* is divided by zero); 110 after 100 shows +10.00% and 100 after 0 shows 0.00
\* (with the sign: +0.00%).
C11_PercentChange ==
    /\ \A f \in IndicatorFrames :
        (f.reqs # <<>> /\ f.pc = "done") =>
            \E df \in upstream.download :
                \A i \in 1..8 :
                    LET prices == Prices(df.Close[FixedOrder[i][2]])
                        n == Len(prices)
                    IN  n >= 2 =>
                          /\ ShowsPercentChange(f.ret[1].indicators[i].change,
                                                prices[n][1], prices[n - 1][1])
                          /\ (prices[n][1] = 110 /\ prices[n - 1][1] = 100) =>
                                f.ret[1].indicators[i].change =
                                    <<"+", "1", "0", ".", "0", "0", "%">>
                          /\ (prices[n][1] = 100 /\ prices[n - 1][1] = 0) =>
                                f.ret[1].indicators[i].change =
                                    <<"+", "0", ".", "0", "0", "%">>
    /\ \A f \in StockFrames :
        ( /\ f.reqs # <<>> /\ f.pc = "done" /\ ~IsDegenerate(f.ret[1].quote)
          /\ Cardinality(ValuedAliases(f.payload, LastAliases)) = 1
          /\ Cardinality(ValuedAliases(f.payload, PrevAliases)) = 1 ) =>
            LET shown == f.ret[1].quote.change_pct
            IN  /\ shown[1] = "(" /\ shown[Len(shown)] = ")"
                /\ ShowsPercentChange(SubSeq(shown, 2, Len(shown) - 1),
                                      OnlyValue(f.payload, LastAliases),
                                      OnlyValue(f.payload, PrevAliases))

\* C11 happens: a stock quote for last = 100 and previous = 0 shows a change of 0
C11_Witness ==
    \E f \in StockFrames :
        /\ f.reqs # <<>> /\ f.pc = "done" /\ ~IsDegenerate(f.ret[1].quote)
        /\ Cardinality(ValuedAliases(f.payload, LastAliases)) = 1
        /\ Cardinality(ValuedAliases(f.payload, PrevAliases)) = 1
        /\ OnlyValue(f.payload, LastAliases) = 100
        /\ OnlyValue(f.payload, PrevAliases) = 0
        /\ f.ret[1].quote.change_pct = <<"(", "+", "0", ".", "0", "0", "%", ")">>

\* a liquidity call that fetched and returned
FreshLiquidity == {f \in LiquidityFrames : f.reqs # <<>> /\ f.pc = "done"}

\* the latest point of a history and the point it is compared with
LatestPoint(history) == history[Len(history)]
WeekBefore(history) == IF Len(history) > 5 THEN history[Len(history) - 5] ELSE history[1]

\* the components of a point in their own units (millions, billions, index points)
InUnits(point) ==
    [fed_assets |-> point.fed_assets \div 1000000,
     tga_balance |-> point.tga_balance \div 1000000,
     rrp_balance |-> point.rrp_balance \div 1000000000,
     net_liquidity |-> point.net_liquidity \div 1000000,
     sp500 |-> point.sp500]

ChangeFields ==
    {<<"fed_assets_change", "fed_assets">>, <<"tga_change", "tga_balance">>,
     <<"rrp_change", "rrp_balance">>, <<"net_liquidity_change", "net_liquidity">>,
     <<"sp500_change", "sp500">>}

\* the fraction change = <<n, d>> is (curr - prev) / base * 100, and 0 when prev = 0
IsChange(change, curr, prev, base) ==
    /\ change[2] > 0
    /\ IF prev = 0 THEN change[1] = 0
       ELSE change[1] * base = (curr - prev) * 100 * change[2]

\* C12 as stated: each of the five changes of the snapshot is
\* (current - previous) / previous * 100, the formula of the indicators, also
\* for a negative previous value, and 0 when previous is 0.
C12_Original ==
    \A f \in FreshLiquidity :
        \A field \in ChangeFields :
            LET curr == InUnits(LatestPoint(f.ret[1].history))[field[2]]
                prev == InUnits(WeekBefore(f.ret[1].history))[field[2]]
            IN  IsChange(f.ret[1].data[field[1]], curr, prev, prev)

\* C12 amended: each of the five changes of the snapshot is
\* (current - previous) / |previous| * 100, which is the formula of the
\* indicators when previous is positive and its opposite when previous is
\* negative, and 0 when previous is 0.
C12_ChangeOverAbsolute ==
    \A f \in FreshLiquidity :
        \A field \in ChangeFields :
            LET curr == InUnits(LatestPoint(f.ret[1].history))[field[2]]
                prev == InUnits(WeekBefore(f.ret[1].history))[field[2]]
            IN  IsChange(f.ret[1].data[field[1]], curr, prev,
                         IF prev < 0 THEN 0 - prev ELSE prev)

\* C12 happens: net liquidity was negative a week before and has risen
C12_Witness ==
    \E f \in FreshLiquidity :
        /\ WeekBefore(f.ret[1].history).net_liquidity < 0
        /\ LatestPoint(f.ret[1].history).net_liquidity >
                WeekBefore(f.ret[1].history).net_liquidity
        /\ f.ret[1].data.net_liquidity_change[1] > 0

\* the value a series has reported last, at a date or before it
AsOf(observations, d) ==
    LET upto == {i \in 1..Len(observations) :
                    observations[i].value.text = "num" /\ observations[i].date <= d}
    IN  IF upto = {} THEN None
        ELSE Some(observations[CHOOSE i \in upto :
                     \A j \in upto : observations[j].date <= observations[i].date].value.num)

ObservationDates(observations) ==
    {observations[i].date : i \in {j \in 1..Len(observations) :
                                      observations[j].value.text \notin {"", "."}}}
ValueDates(observations) ==
    {observations[i].date : i \in {j \in 1..Len(observations) :
                                      observations[j].value.text = "num"}}
FirstValueDate(observations) ==
    CHOOSE d \in ValueDates(observations) : \A e \in ValueDates(observations) : d <= e

\* the dates of the union that are on or after the latest first value date
AlignedDates(four) ==
    IF \E i \in 1..4 : ValueDates(four[i]) = {} THEN {}
    ELSE {d \in UNION {ObservationDates(four[i]) : i \in 1..4} :
            \A i \in 1..4 : FirstValueDate(four[i]) <= d}

\* the four series a call may have fetched
FourSeries ==
    {<<walcl, wdtgal, rrpontsyd, sp500>> :
        walcl \in upstream.fred["WALCL"], wdtgal \in upstream.fred["WDTGAL"],
        rrpontsyd \in upstream.fred["RRPONTSYD"], sp500 \in upstream.fred["SP500"]}

HistoryDates(history) == {history[i].date : i \in 1..Len(history)}

\* C14: the rows of the aligned table (the points of the history) are at
\* exactly the dates of the union of the four series' observation dates that
\* are on or after the latest of the four first observation dates; no date
\* before some series has reported is there; and every row has a value of
\* every series, the one the series reported last at that date or before.
C14_AlignedDates ==
    \A f \in FreshLiquidity :
        \E four \in FourSeries :
            LET history == f.ret[1].history
            IN  /\ HistoryDates(history) = AlignedDates(four)
                /\ \A i \in 1..Len(history) :
                    LET d == history[i].date
                    IN  /\ \A k \in 1..4 : FirstValueDate(four[k]) <= d
                        /\ \A k \in 1..4 : AsOf(four[k], d) # None
                        /\ history[i].fed_assets = AsOf(four[1], d)[1] * 1000000
                        /\ history[i].tga_balance = AsOf(four[2], d)[1] * 1000000
                        /\ history[i].rrp_balance = AsOf(four[3], d)[1] * 1000000000
                        /\ history[i].sp500 = AsOf(four[4], d)[1]

\* C14 happens: one series starts at the last date, another reports only at
\* the first date, and the table has the last date alone
C14_Witness ==
    \E f \in FreshLiquidity :
        \E four \in FourSeries :
            /\ FirstValueDate(four[4]) = LastDate
            /\ ValueDates(four[1]) = {FirstDate}
            /\ HistoryDates(f.ret[1].history) = {LastDate}

\* C15: the history of every refresh has one point per date of the aligned
\* table of the series just fetched, dates strictly ascending (so none
\* twice), every component in absolute units (assets, account balance and
\* net liquidity times 1,000,000, the reverse repo balance times
\* 1,000,000,000); the list in the slot is this list, with nothing kept of
\* the list of an earlier refresh.
C15_HistoryPerRow ==
    \A f \in FreshLiquidity :
        \E four \in FourSeries :
            LET history == f.ret[1].history
            IN  /\ Len(history) = Cardinality(AlignedDates(four))
                /\ \A i \in 1..Len(history) : history[i].date \in AlignedDates(four)
                /\ \A i \in 1..(Len(history) - 1) : history[i].date < history[i + 1].date
                /\ \A i \in 1..Len(history) :
                    LET d == history[i].date
                    IN  /\ InUnits(history[i]).fed_assets = AsOf(four[1], d)[1]
                        /\ InUnits(history[i]).tga_balance = AsOf(four[2], d)[1]
                        /\ InUnits(history[i]).rrp_balance = AsOf(four[3], d)[1]
                        /\ history[i].fed_assets % 1000000 = 0
                        /\ history[i].tga_balance % 1000000 = 0
                        /\ history[i].rrp_balance % 1000000000 = 0
                        /\ history[i].net_liquidity =
                              history[i].fed_assets - history[i].tga_balance
                              - history[i].rrp_balance
                /\ _LIQUIDITY_CACHE # None
                /\ _LIQUIDITY_CACHE[1].history = history

\* C15 happens: a refresh finds an entry with a longer history and returns a shorter one
C15_Witness ==
    \E f \in FreshLiquidity :
        /\ f.pre[3] # None
        /\ Len(f.pre[3][1].history) > Len(f.ret[1].history)
        /\ Len(f.ret[1].history) >= 2
        /\ _LIQUIDITY_CACHE[1].history = f.ret[1].history

\* the four series give an aligned table with no rows
NoAlignedRow(four) == AlignedDates(four) = {}

\* C16 (refuted by the code): whenever the four series fetched give an aligned
\* table with no rows, the call fails with the empty-merge error (a
\* ValueError that is neither the missing-credential error nor an upstream
\* failure) and the slot is left as it was.
C16_EmptyMergeError ==
    \A f \in LiquidityFrames :
        (Len(f.reqs) = 4 /\ \A four \in FourSeries : NoAlignedRow(four)) =>
            /\ f.pc = "raised"
            /\ f.exc = Some(EmptyMergeError)
            /\ EmptyMergeError \notin {MissingKeyError, UpstreamError}
            /\ _LIQUIDITY_CACHE = f.pre[3]

\* C16 happens: a series has nothing but a missing value, all four were
\* fetched, and the call has ended with a KeyError
C16_Witness ==
    \E f \in LiquidityFrames :
        /\ Len(f.reqs) = 4
        /\ \A four \in FourSeries : NoAlignedRow(four) /\ ObservationDates(four[2]) = {}
        /\ f.pc = "raised" /\ f.exc[1].type = "KeyError"
        /\ _LIQUIDITY_CACHE = f.pre[3]

-----------------------------------------------------------------------------
(* The liquidity page after a failure *)

\* the failed calls of get_liquidity_data that load_liquidity_data has handled
HandledLiquidityFailures ==
    {f \in LiquidityFrames : f.pc = "raised" /\ ~State.liq_loading}

\* C17: when load_liquidity_data has handled a failure of get_liquidity_data,
\* liq_error is the provider's own message only if the failure is the missing
\* credential; for every other failure (the empty merge, a transport or parse
\* failure, an observation value that float() rejects) it is the generic
\* retry message.
C17_GenericUnlessCredential ==
    \A f \in HandledLiquidityFailures :
        State.liq_error = IF f.exc[1] = MissingKeyError
                          THEN MissingKeyError.msg
                          ELSE RetryMessage.load_liquidity_data

\* C17 happens: the handler has handled a call that failed on an observation
\* value float() rejects, one that failed on an empty merge, and the page
\* shows what the exception says
C17_Witness ==
    \E f \in HandledLiquidityFailures :
        /\ f.exc[1] \in {FloatError, EmptyMergeError}
        /\ f.reqs # <<>>
        /\ State.liq_error = f.exc[1].msg
        /\ ~State.liq_is_cached

-----------------------------------------------------------------------------
(* Manual refresh *)

\* the TTL a handler passes to its provider, in ticks
HandlerTTL(fn) ==
    Seconds(CASE fn = "get_indicators" -> IndicatorsTTLSeconds
              [] fn = "get_stock_quote" -> StockTTLSeconds
              [] fn = "get_liquidity_data" -> LiquidityTTLSeconds)

\* the handler that called the provider has finished
Handled(fn) ==
    CASE fn = "get_indicators" -> ~State.loading
      [] fn = "get_stock_quote" -> ~State.stock_loading
      [] fn = "get_liquidity_data" -> ~State.liq_loading

\* the "cached" badge of the provider's page
ShownCached(fn) ==
    CASE fn = "get_indicators" -> State.is_cached
      [] fn = "get_stock_quote" -> State.stock_is_cached
      [] fn = "get_liquidity_data" -> State.liq_is_cached

\* the entry a refresh found in its provider's slot
FoundEntry(f) == f.pre[Slot(f.fn)][1]

\* C18: a load or refresh through a handler calls the provider with the
\* handler's fixed TTL (300 s, 300 s, 3600 s) and, for the stock page, the
\* selected symbol.  When the entry is younger than that TTL and of the same
\* symbol, the call issues no upstream request and the page shows the result
\* as cached; a call issues upstream requests only if there is no entry, the
\* entry is as old as the TTL or older, or it is of another symbol.
C18_RefreshHonoursTTL ==
    \A f \in EndedFrames :
        /\ f.ttl_seconds = HandlerTTL(f.fn)
        /\ f.fn = "get_stock_quote" => f.symbol = State.selected_symbol
        /\ FoundValid(f) =>
                /\ f.reqs = <<>>
                /\ f.pc = "done" /\ f.ret[1].is_cached
                /\ Handled(f.fn) => ShownCached(f.fn)
        /\ f.reqs # <<>> =>
                \/ f.pre[Slot(f.fn)] = None
                \/ f.now_epoch - FoundEntry(f).fetched_at_epoch >= HandlerTTL(f.fn)
                \/ f.fn = "get_stock_quote" /\ FoundEntry(f).symbol # State.selected_symbol
        /\ (f.pc = "done" /\ Handled(f.fn)) => (ShownCached(f.fn) <=> f.reqs = <<>>)

\* C18 happens: a refresh of the stock page one tick before the entry of the
\* selected symbol reaches 300 s has been served from the cache
C18_Witness ==
    \E f \in EndedFrames :
        /\ f.fn = "get_stock_quote" /\ f.pre[2] # None
        /\ FoundEntry(f).symbol = State.selected_symbol
        /\ f.now_epoch - FoundEntry(f).fetched_at_epoch = Seconds(StockTTLSeconds) - 1
        /\ f.reqs = <<>>
        /\ Handled(f.fn) /\ State.stock_is_cached

-----------------------------------------------------------------------------
(* The life of a cache slot *)

\* thread t is inside a provider call
Running(t) == frames[t].pc \notin {"idle", "done", "raised"}

\* in this step the call of thread t returns a result it has fetched, after
\* the requests of one fetch cycle, and slot i now holds the entry made of it
StoresFetched(t, i) ==
    /\ Running(t)
    /\ Slot(frames[t].fn) = i
    /\ frames'[t].pc = "done"
    /\ ~frames'[t].ret[1].is_cached
    /\ frames'[t].reqs \in FetchCycles(frames[t].fn)
    /\ caches'[i] = Some(EntryOf(frames'[t], frames'[t].ret[1]))

\* C19: a cache slot holds no entry or one entry.  It changes only in the
\* step in which a provider call returns the result it has fetched: no step
\* outside a call (the clock, a caller resuming), no step of a call that
\* serves the cache and no step of a call that raises changes it; a slot
\* that holds an entry is never empty again.
C19_SlotLifecycle ==
    [][\A i \in 1..3 :
            /\ Len(caches[i]) <= 1 /\ Len(caches'[i]) <= 1
            /\ caches[i] # None => caches'[i] # None
            /\ caches'[i] # caches[i] => \E t \in Threads : StoresFetched(t, i)]_vars

\* C19 happens: a call that found an entry as old as its TTL has replaced it
\* with the entry it fetched, a call before it having failed on that entry
C19_Witness ==
    \E f \in EndedFrames :
        /\ f.pc = "done" /\ ~f.ret[1].is_cached
        /\ f.pre[Slot(f.fn)] # None
        /\ f.failed = Some(f.pre)
        /\ caches[Slot(f.fn)] = Some(EntryOf(f, f.ret[1]))
        /\ caches[Slot(f.fn)] # f.pre[Slot(f.fn)]

-----------------------------------------------------------------------------
(* No retry inside a call *)

\* how often a request occurs in the log of a call
Times(reqs, what) == Cardinality({k \in 1..Len(reqs) : reqs[k] = what})

\* the calls that have started and whose caller has not resumed
StartedFrames == {frames[t] : t \in {u \in Threads : frames[u].pc # "idle"}}

\* the call raised what a failed upstream request raises
FailedOnRequest(f) ==
    f.pc = "raised" /\ f.exc[1] \in {UpstreamError, FloatError}

\* C20: at every point of a provider call, running or ended, no upstream
\* request occurs twice in what the call has issued, and the requests are the
\* beginning of one fetch cycle: at most one batch-quote and one policy-rate
\* request for get_indicators, at most one request per series and four in
\* all for get_liquidity_data, the fast source once and the rich source at
\* most once for get_stock_quote.  A call that raised on a failed request
\* issued that request last and once.
C20_NoRetry ==
    \A f \in StartedFrames :
        /\ \A k \in 1..Len(f.reqs) : Times(f.reqs, f.reqs[k]) = 1
        /\ \E cycle \in FetchCycles(f.fn) : IsPrefix(f.reqs, cycle)
        /\ f.fn = "get_indicators" =>
                Times(f.reqs, "yf.download") <= 1 /\ Times(f.reqs, "nyfed.effr") <= 1
        /\ f.fn = "get_liquidity_data" => Len(f.reqs) <= 4
        /\ f.fn = "get_stock_quote" =>
                /\ Times(f.reqs, "fast_info") <= 1 /\ Times(f.reqs, "info") <= 1
                /\ f.pc # "raised"
        /\ FailedOnRequest(f) =>
                /\ f.reqs # <<>>
                /\ Times(f.reqs, f.reqs[Len(f.reqs)]) = 1

\* C20 happens: a liquidity call has ended on the failure of its third
\* request, after two series were fetched
C20_Witness ==
    \E f \in StartedFrames :
        /\ f.fn = "get_liquidity_data"
        /\ FailedOnRequest(f) /\ f.exc[1] = UpstreamError
        /\ f.reqs = <<"WALCL", "WDTGAL", "RRPONTSYD">>

-----------------------------------------------------------------------------
(* Forward fill *)

\* the cell of a series in a point of the history, in the units of the series
CellOf(point, k) ==
    CASE k = 1 -> InUnits(point).fed_assets
      [] k = 2 -> InUnits(point).tga_balance
      [] k = 3 -> InUnits(point).rrp_balance
      [] k = 4 -> point.sp500

\* the observations of a series that carry a value
Valued(observations) ==
    {j \in 1..Len(observations) : observations[j].value.text = "num"}

\* C21: in every row of the aligned table the cell of a series is the value
\* of one of its observations that carry a value: the one at the date of the
\* row if there is one, otherwise the one at the nearest earlier date.  It is
\* never taken from an observation with the missing-value marker "." (whose
\* date counts as a gap) and never from a later date.
C21_ForwardFill ==
    \A f \in FreshLiquidity :
        \E four \in FourSeries :
            \A i \in 1..Len(f.ret[1].history), k \in 1..4 :
                LET point == f.ret[1].history[i]
                    obs == four[k]
                IN  \E j \in Valued(obs) :
                        /\ obs[j].value.num = CellOf(point, k)
                        /\ obs[j].date <= point.date
                        /\ \A m \in Valued(obs) :
                                obs[m].date <= point.date => obs[m].date <= obs[j].date

\* C21 happens: a row at the date where a series has the marker "." between
\* two values, its cell filled with the earlier value and not the later one
C21_Witness ==
    \E f \in FreshLiquidity :
        \E four \in FourSeries :
            \E i \in 1..Len(f.ret[1].history), k \in 1..4 :
                LET point == f.ret[1].history[i]
                    obs == four[k]
                IN  /\ Len(obs) = 3
                    /\ obs[2].value.text = "." /\ obs[2].date = point.date
                    /\ obs[1].value.text = "num" /\ obs[3].value.text = "num"
                    /\ CellOf(point, k) = obs[1].value.num
                    /\ CellOf(point, k) # obs[3].value.num
                    /\ i < Len(f.ret[1].history)

-----------------------------------------------------------------------------
(* The snapshot and its comparison row *)

\* the position in the table of the row the latest row is compared with
ComparisonRow(rows) == IF rows >= 6 THEN rows - 5 ELSE 1

RawFields == {"fed_assets", "tga_balance", "rrp_balance", "net_liquidity", "sp500"}

\* C22: the raw values of the snapshot are those of the last row of the
\* aligned table; each change of the snapshot is the change from the row 5
\* positions before the last one when the table has 6 rows or more, and from
\* the first row otherwise; with a single row the comparison row is the
\* latest row itself and every change is 0.
C22_ComparisonRow ==
    \A f \in FreshLiquidity :
        LET history == f.ret[1].history
            rows == Len(history)
            latest == history[rows]
            compared == history[ComparisonRow(rows)]
        IN  /\ \A field \in RawFields : f.ret[1].data[field] = latest[field]
            /\ \A field \in ChangeFields :
                    IsChange(f.ret[1].data[field[1]],
                             InUnits(latest)[field[2]], InUnits(compared)[field[2]],
                             Abs(InUnits(compared)[field[2]]))
            /\ rows = 1 => \A field \in ChangeFields : f.ret[1].data[field[1]][1] = 0

\* C22 happens: in a table of MaxRows rows, 7 or more, the assets are
\* compared with the row 5 positions before the last, which gives another
\* change than the first row and than the row 6 positions before
C22_Witness ==
    \E f \in FreshLiquidity :
        LET history == f.ret[1].history
            rows == Len(history)
            change == f.ret[1].data.fed_assets_change
        IN  /\ rows = MaxRows /\ rows >= 7
            /\ IsChange(change, InUnits(history[rows]).fed_assets,
                        InUnits(history[rows - 5]).fed_assets,
                        InUnits(history[rows - 5]).fed_assets)
            /\ ~IsChange(change, InUnits(history[rows]).fed_assets,
                         InUnits(history[1]).fed_assets, InUnits(history[1]).fed_assets)
            /\ ~IsChange(change, InUnits(history[rows]).fed_assets,
                         InUnits(history[rows - 6]).fed_assets,
                         InUnits(history[rows - 6]).fed_assets)

-----------------------------------------------------------------------------
(* The two sources of a stock quote *)

\* the calls of get_stock_quote that went to the sources
FetchedStock == {f \in StockFrames : f.reqs # <<>>}

\* a source gives a payload: reading it does not raise and it is not empty
Gives(source) == ~source.raises /\ source.data # <<>>

\* C23: a fetch of get_stock_quote reads the fast source first, and the rich
\* source only if the fast source raised or was empty; the payload is that
\* of the fast source if it gives one, else that of the rich source if it
\* gives one, else empty.  The call never raises; when neither source gives
\* a payload it returns the placeholder quote.
C23_FastThenRich ==
    \A f \in FetchedStock :
        \E ticker \in TickerOf(upstream, f.symbol_u) :
            /\ f.reqs[1] = "fast_info"
            /\ f.reqs = IF Gives(ticker.fast_info) THEN <<"fast_info">>
                        ELSE <<"fast_info", "info">>
            /\ f.payload = IF Gives(ticker.fast_info) THEN ticker.fast_info.data
                           ELSE IF Gives(ticker.info) THEN ticker.info.data
                           ELSE <<>>
            /\ f.pc = "done"
            /\ (~Gives(ticker.fast_info) /\ ~Gives(ticker.info)) =>
                    /\ f.ret[1].quote.price = Placeholder
                    /\ f.ret[1].quote.change = Placeholder
                    /\ f.ret[1].quote.source = "yfinance"

\* C23 happens: reading either source raised, and the call returned the
\* placeholder quote
C23_Witness ==
    \E f \in FetchedStock :
        /\ \A ticker \in TickerOf(upstream, f.symbol_u) :
                ticker.fast_info.raises /\ ticker.info.raises
        /\ f.reqs = <<"fast_info", "info">>
        /\ f.pc = "done" /\ f.ret[1].quote.price = Placeholder

-----------------------------------------------------------------------------
(* The aliases of a concept *)

\* the value of the first alias, in the order of the list, that the payload has
FirstPresent(payload, aliases) ==
    Get(payload, aliases[CHOOSE i \in ValuedAliases(payload, aliases) :
                            \A j \in ValuedAliases(payload, aliases) : i <= j])[1]

\* C24 (refuted by the code): in the quote made of a fetched payload, the
\* last price and the previous close are those of the first alias the
\* payload has, a value of 0 included: when both concepts have an alias in
\* the payload the quote is not the placeholder, its price shows the first
\* present last price and its change_value the difference of the two first
\* present values; the volume is that of the first present volume alias;
\* the quote is the placeholder only when a concept has no alias at all.
C24_FirstPresentAlias ==
    \A f \in FetchedStock :
        LET quote == f.ret[1].quote
            resolvable == /\ ~NoValue(f.payload, LastAliases)
                          /\ ~NoValue(f.payload, PrevAliases)
        IN  /\ f.pc = "done"
            /\ quote.price = Placeholder <=> ~resolvable
            /\ resolvable =>
                LET last == FirstPresent(f.payload, LastAliases)
                    prev == FirstPresent(f.payload, PrevAliases)
                IN  /\ quote.price = MoneyPrefix(Get(f.payload, "currency"))
                                        \o _fmt_number(<<last, 1>>, 2)
                    /\ quote.change_value =
                            (IF last - prev >= 0 THEN <<"+">> ELSE <<>>)
                                \o _fmt_number(<<last - prev, 1>>, 2)
                    /\ ~NoValue(f.payload, VolumeAliases) =>
                            quote.volume =
                                FormatFixed(FirstPresent(f.payload, VolumeAliases), 1, 0, TRUE)

\* C24 happens: the first alias of the last price is present with the value
\* 0 and a later alias has a price; the quote shows the later one
C24_Witness ==
    \E f \in FetchedStock :
        /\ Get(f.payload, "last_price") = Some(0)
        /\ Get(f.payload, "lastPrice") = None
        /\ Get(f.payload, "regularMarketPrice") = Some(5)
        /\ Get(f.payload, "previous_close") = Some(5)
        /\ f.pc = "done"
        /\ f.ret[1].quote.price = _fmt_number(<<5, 1>>, 2)
        /\ f.ret[1].quote.change_value = <<"+">> \o _fmt_number(<<0, 1>>, 2)

-----------------------------------------------------------------------------
(* The slots of the other providers *)

\* the slots that are not the one of a provider
OtherSlots(fn) == (1..3) \ {Slot(fn)}

\* C25: at every point of a call of a provider, and when it has ended as a
\* hit, as a fetch or as a failure, the slots of the other two providers
\* hold what they held when the call started.
C25_OtherSlotsUntouched ==
    \A f \in StartedFrames :
        \A j \in OtherSlots(f.fn) : caches[j] = f.pre[j]

\* C25 happens: with the other two slots populated, a call has replaced the
\* entry of its own slot, after a call that failed
C25_Witness ==
    \E f \in EndedFrames :
        /\ \A j \in OtherSlots(f.fn) : f.pre[j] # None /\ caches[j] = f.pre[j]
        /\ f.pre[Slot(f.fn)] # None
        /\ f.pc = "done" /\ ~f.ret[1].is_cached
        /\ caches[Slot(f.fn)] # f.pre[Slot(f.fn)]
        /\ f.failed # None

-----------------------------------------------------------------------------
(* Overlapping calls that miss *)

\* C26 (refuted by the code): in every step that replaces the entry of a
\* slot, whatever the interleaving of the calls, the fetched_at_epoch of the
\* new entry is not below that of the entry it replaces.
C26_FetchedAtNeverDecreases ==
    [][\A i \in 1..3 :
            (caches[i] # None /\ caches'[i] # None) =>
                caches'[i][1].fetched_at_epoch >= caches[i][1].fetched_at_epoch]_vars

\* C26 happens: two calls of a provider that missed have both returned what
\* they fetched, and the slot holds the entry of the one that started first
C26_Witness ==
    \E t, u \in Threads :
        /\ HasEnded(t) /\ HasEnded(u)
        /\ frames[t].fn = frames[u].fn
        /\ frames[t].pc = "done" /\ ~frames[t].ret[1].is_cached
        /\ frames[u].pc = "done" /\ ~frames[u].ret[1].is_cached
        /\ frames[t].now_epoch < frames[u].now_epoch
        /\ caches[Slot(frames[t].fn)] = Some(EntryOf(frames[t], frames[t].ret[1]))
        /\ frames[u].pre[Slot(frames[u].fn)] # caches[Slot(frames[t].fn)]

-----------------------------------------------------------------------------
(* A table that cannot be empty *)

\* the calls of get_liquidity_data that received all four series
ReceivedFour == {f \in LiquidityFrames : Len(f.reqs) = 4 /\ ~FailedOnRequest(f)}

\* the latest date at which one of four series has an observation with a value
LatestValueDate(four) ==
    CHOOSE d \in UNION {ValueDates(four[k]) : k \in 1..4} :
        \A e \in UNION {ValueDates(four[k]) : k \in 1..4} : e <= d

\* C27: when each of the four series a call received has at least one
\* observation with a value, the call returns: it does not raise the
\* empty-merge error (nor any other), and the table has a row at the latest
\* date of the four series, which is its last row.  (Stated for an upstream
\* with one answer per series, as in SpecMerge, where the series received
\* are the series of the upstream.)
C27_NonEmptyTable ==
    \A f \in ReceivedFour :
        \A four \in FourSeries :
            (\A k \in 1..4 : ValueDates(four[k]) # {}) =>
                /\ f.pc = "done"
                /\ f.exc # Some(EmptyMergeError)
                /\ f.ret[1].history # <<>>
                /\ LatestPoint(f.ret[1].history).date = LatestValueDate(four)

\* C27 happens: three series report at the first date alone and one at the
\* last date alone; the table has the single row of the last date
C27_Witness ==
    \E f \in ReceivedFour :
        \E four \in FourSeries :
            /\ Cardinality({k \in 1..4 : ValueDates(four[k]) = {FirstDate}}) = 3
            /\ Cardinality({k \in 1..4 : ValueDates(four[k]) = {LastDate}}) = 1
            /\ f.pc = "done"
            /\ HistoryDates(f.ret[1].history) = {LastDate}

-----------------------------------------------------------------------------
(* The snapshot and the history of one result *)

\* the calls of get_liquidity_data that returned
LiquidityResults == {f \in LiquidityFrames : f.pc = "done"}

\* C28 (refuted by the code): in every result of get_liquidity_data, fetched
\* or served from the cache, the history is not empty and each raw value of
\* the snapshot (fed_assets, tga_balance, rrp_balance, net_liquidity, sp500)
\* is that of the last point of the history.
C28_SnapshotIsLastPoint ==
    \A f \in LiquidityResults :
        /\ f.ret[1].history # <<>>
        /\ \A field \in RawFields :
                f.ret[1].data[field] = LatestPoint(f.ret[1].history)[field]

\* C28 happens: a call served from the cache has returned the snapshot of one
\* entry with the history of another, which ends a day later
C28_Witness ==
    \E f \in LiquidityResults :
        /\ f.ret[1].is_cached /\ f.reqs = <<>>
        /\ f.ret[1].history # <<>>
        /\ f.ret[1].data.sp500 # LatestPoint(f.ret[1].history).sp500
        /\ \A field \in RawFields \ {"sp500"} :
                f.ret[1].data[field] = LatestPoint(f.ret[1].history)[field]

-----------------------------------------------------------------------------
(* The end of a handler *)

\* the error string of the provider's page
ShownError(fn) ==
    CASE fn = "get_indicators" -> State.error
      [] fn = "get_stock_quote" -> State.stock_error
      [] fn = "get_liquidity_data" -> State.liq_error

\* the fields of State other than the flags and the error strings
Flags == {"loading", "error", "is_cached", "stock_loading", "stock_error",
          "stock_is_cached", "liq_loading", "liq_error", "liq_is_cached"}
Displayed == [field \in (DOMAIN State) \ Flags |-> State[field]]

\* C29: a handler whose provider call has ended always finishes, whatever
\* the call raised: in the step in which it does, its loading flag becomes
\* FALSE, its error string is non-empty exactly when the call raised, and
\* when the call raised the cached flag of the page becomes FALSE and every
\* value displayed stays as it was.
C29_HandlerEnds ==
    [][\A t \in Threads :
            (HasEnded(t) /\ ~Handled(frames[t].fn)) =>
                /\ ENABLED (IndicatorsLoaded(t) \/ StockQuoteLoaded(t) \/ LiquidityDataLoaded(t))
                /\ State' # State =>
                    /\ Handled(frames[t].fn)'
                    /\ (ShownError(frames[t].fn)' # "") <=> (frames[t].pc = "raised")
                    /\ frames[t].pc = "raised" =>
                        /\ ~ShownCached(frames[t].fn)'
                        /\ Displayed' = Displayed]_vars

\* C29 happens: a refresh of the indicators has failed, the page shows the
\* error and is not loading, and the list of an earlier load is still shown
C29_Witness ==
    /\ frames[1].fn = "get_indicators" /\ frames[1].pc = "raised"
    /\ ~State.loading
    /\ State.error # ""
    /\ ~State.is_cached
    /\ State.indicators # <<>>
    /\ _CACHE # None /\ State.indicators = _CACHE[1].indicators

-----------------------------------------------------------------------------
(* The sign of a stock quote *)

\* the stock calls that fetched a payload and returned a quote with a price
PricedQuotes ==
    {f \in FetchedStock : f.pc = "done" /\ f.ret[1].quote.price # Placeholder}

\* C30 (refuted by the code): in every quote with a price, is_positive is
\* TRUE exactly when change_value begins with "+", and exactly when the last
\* price minus the previous close is >= 0, whatever the pair: a previous
\* close of 0 and negative values included.
C30_SignAgrees ==
    \A f \in PricedQuotes :
        LET quote == f.ret[1].quote
            last == Probe(f.payload, LastAliases)[1]
            prev == Probe(f.payload, PrevAliases)[1]
        IN  /\ quote.is_positive <=> (Head(quote.change_value) = "+")
            /\ quote.is_positive <=> (last - prev >= 0)

\* C30 happens: the price has risen from a negative previous close; the
\* change carries "+" and is_positive is FALSE
C30_Witness ==
    \E f \in PricedQuotes :
        /\ Probe(f.payload, PrevAliases)[1] < 0
        /\ Probe(f.payload, LastAliases)[1] > Probe(f.payload, PrevAliases)[1]
        /\ Head(f.ret[1].quote.change_value) = "+"
        /\ ~f.ret[1].quote.is_positive

====
